---------------------------- MODULE Spec2Model ----------------------------
(***************************************************************************)
(* Model of the scheduler and the estimator of auto-cursor-agent:          *)
(*   core/dependency_resolver.py  DependencyResolver                       *)
(*   core/task_orchestrator.py    TaskOrchestrator                         *)
(*   core/task_templates.py       TaskTemplate                             *)
(*   core/auto_optimizer.py       StrategyAdjuster, AutoOptimizer          *)
(*   core/progress_monitor.py     ProgressMonitor, CodeQualityAnalyzer     *)
(*   core/cursor_interface.py     CursorInterface.execute_task             *)
(*   main.py                      AutoCursorAgent.execute_development      *)
(*                                                                         *)
(* A task is a record; a task list is a sequence of tasks, in list order.  *)
(* A Python call either returns a value or raises; its outcome is the      *)
(* record [kind |-> "return" | "raise", value |-> ...].                    *)
(***************************************************************************)
EXTENDS Integers, Sequences, FiniteSets, TLC

VARIABLES
    tasks,        \* resolver: the task list handed to the DependencyResolver
    given,        \* resolver: the same list as the caller built it (history)
    sortOut,      \* resolver: outcome of the latest topological_sort call
    sortPrev,     \* resolver: outcome of the topological_sort call before it
    cyclesOut,    \* resolver: outcome of the latest detect_circular_dependencies call
    validOut,     \* resolver: outcome of the latest validate_dependencies call
    validPrev,    \* resolver: outcome of the validate_dependencies call before it
    max_concurrent, \* scheduler: the max_concurrent argument of the latest get_next_tasks call
    ready_tasks,  \* scheduler: outcome of the latest get_next_tasks(tasks, max_concurrent) call
    templates,    \* orchestrator: self.template.templates, shared by all decompose_tasks calls
    requirement,  \* orchestrator: the analyzed requirement of the current run
    result,       \* orchestrator: outcome of decompose_tasks(requirement) in the current run
    raisedAt,     \* orchestrator: the step of that call whose exception was caught (history)
    board,        \* orchestrator: a task list under update_task_status / get_project_progress calls
    drive,        \* agent: the frame of execute_development and the background tasks of the run
    wait,         \* cursor interface: the frame of execute_task waiting for the editor
    plan,         \* optimizer: a task list under calls of the StrategyAdjuster
    estimator     \* monitor: the workspace and the data of a ProgressMonitor

resolverVars == <<tasks, given, sortOut, sortPrev, cyclesOut, validOut, validPrev>>
schedulerVars == <<max_concurrent, ready_tasks>>

decomposeVars == <<templates, requirement, result, raisedAt>>

agentVars == <<board, drive, wait, plan, estimator>>

vars == <<resolverVars, schedulerVars, decomposeVars, agentVars>>

-----------------------------------------------------------------------------
(* Bounds of the explored inputs *)

\* longest task list drawn
MaxTasks == 3
\* most dependency entries in one drawn task list (all tasks together)
MaxEdges == 3

\* ids given to the drawn tasks, by list position
TaskNames == <<"a", "b", "c", "d", "e">>
\* a dependency id that is the id of no task
Ghost == "ghost"

\* most dependency entries in a task list drawn for the scheduler
MaxSchedEdges == 2
\* largest max_concurrent argument tried
MaxConcurrent == 2

\* most features listed in one requirement
MaxFeatures == 2

-----------------------------------------------------------------------------
(* Generic helpers *)

Range(s) == {s[i] : i \in DOMAIN s}

Min(a, b) == IF a <= b THEN a ELSE b

\* index of the first occurrence of x in s (Python list.index); 0 when absent
IndexOf(s, x) ==
    IF x \in Range(s) THEN CHOOSE i \in DOMAIN s : s[i] = x /\ \A j \in 1..(i - 1) : s[j] /= x
    ELSE 0

RECURSIVE SumUpTo(_, _)
SumUpTo(f, n) == IF n = 0 THEN 0 ELSE f[n] + SumUpTo(f, n - 1)

\* outcomes of a call
Returned(v) == [kind |-> "return", value |-> v]
Raised == [kind |-> "raise", value |-> <<>>]
NotCalled == [kind |-> "none", value |-> <<>>]

\* the ids of a task list: {task["id"] for task in tasks}
TaskIdSet(ts) == {ts[i].id : i \in DOMAIN ts}

-----------------------------------------------------------------------------
(* DependencyResolver.topological_sort *)

\* task_map = {task["id"]: task for task in tasks}: the last task of each id
task_map(ts) ==
    [x \in TaskIdSet(ts) |->
        ts[CHOOSE i \in DOMAIN ts : ts[i].id = x /\ \A j \in DOMAIN ts : ts[j].id = x => j <= i]]

\* the keys of in_degree in dict order: ids by first occurrence in the list
RECURSIVE KeyOrder(_, _, _)
KeyOrder(ts, i, acc) ==
    IF i > Len(ts) THEN acc
    ELSE KeyOrder(ts, i + 1, IF ts[i].id \in Range(acc) THEN acc ELSE Append(acc, ts[i].id))

\* lines 20-23: one increment per ENTRY of the dependency list that is a known id
RECURSIVE InDegreeFrom(_, _, _)
InDegreeFrom(ts, i, deg) ==
    IF i > Len(ts) THEN deg
    ELSE LET deps == ts[i].dependencies
             n == Cardinality({j \in DOMAIN deps : deps[j] \in DOMAIN deg})
         IN InDegreeFrom(ts, i + 1, [deg EXCEPT ![ts[i].id] = @ + n])

in_degree(ts) == InDegreeFrom(ts, 1, [x \in TaskIdSet(ts) |-> 0])

\* lines 35-39: one decrement per TASK that lists current_id, however often
RECURSIVE Relax(_, _, _, _, _)
Relax(ts, current_id, i, deg, queue) ==
    IF i > Len(ts) THEN [deg |-> deg, queue |-> queue]
    ELSE IF current_id \in Range(ts[i].dependencies)
         THEN LET id == ts[i].id
                  deg2 == [deg EXCEPT ![id] = @ - 1]
              IN Relax(ts, current_id, i + 1, deg2,
                       IF deg2[id] = 0 THEN Append(queue, id) ELSE queue)
         ELSE Relax(ts, current_id, i + 1, deg, queue)

\* lines 29-39: while queue
RECURSIVE KahnLoop(_, _, _, _, _)
KahnLoop(ts, tm, deg, queue, sorted_tasks) ==
    IF queue = <<>> THEN sorted_tasks
    ELSE LET current_id == Head(queue)
             r == Relax(ts, current_id, 1, deg, Tail(queue))
         IN KahnLoop(ts, tm, r.deg, r.queue, Append(sorted_tasks, tm[current_id]))

\* a variant whose first queue holds the ready tasks by ascending priority
topological_sort_by_priority(ts) ==
    LET deg == in_degree(ts)
        tm == task_map(ts)
        ready == SelectSeq(KeyOrder(ts, 1, <<>>), LAMBDA x : deg[x] = 0)
        queue == SortSeq(ready, LAMBDA x, y : tm[x].priority < tm[y].priority)
    IN KahnLoop(ts, tm, deg, queue, <<>>)

topological_sort(ts) ==
    LET deg == in_degree(ts)
        queue == SelectSeq(KeyOrder(ts, 1, <<>>), LAMBDA x : deg[x] = 0)
    IN KahnLoop(ts, task_map(ts), deg, queue, <<>>)

-----------------------------------------------------------------------------
(* DependencyResolver.detect_circular_dependencies *)

\* The state shared by the nested dfs calls: visited, rec_stack, cycles; ret is
\* the value the latest dfs call returned, raised tells that path.index raised
\* ValueError (the id is on rec_stack but not on the current path).
DfsStart == [visited |-> {}, rec_stack |-> {}, cycles |-> <<>>, ret |-> FALSE, raised |-> FALSE]

\* next((t for t in tasks if t["id"] == task_id), None): the first such task
FirstTask(ts, task_id) ==
    ts[CHOOSE i \in DOMAIN ts : ts[i].id = task_id /\ \A j \in 1..(i - 1) : ts[j].id /= task_id]

RECURSIVE dfs(_, _, _, _)
RECURSIVE dfsDeps(_, _, _, _, _, _)

\* lines 50-71
dfs(ts, task_id, path, st) ==
    IF task_id \in st.rec_stack
    THEN IF task_id \in Range(path)
         THEN [st EXCEPT !.cycles = Append(@, SubSeq(path, IndexOf(path, task_id), Len(path))
                                                \o <<task_id>>),
                         !.ret = TRUE]
         ELSE [st EXCEPT !.raised = TRUE]
    ELSE IF task_id \in st.visited
    THEN [st EXCEPT !.ret = FALSE]
    ELSE LET st1 == [st EXCEPT !.visited = @ \cup {task_id}, !.rec_stack = @ \cup {task_id}]
             st2 == IF task_id \in TaskIdSet(ts)
                    THEN dfsDeps(ts, task_id, FirstTask(ts, task_id).dependencies, 1, path,
                                 [st1 EXCEPT !.ret = FALSE])
                    ELSE [st1 EXCEPT !.ret = FALSE]
         IN IF st2.raised \/ st2.ret
            THEN st2                       \* return True (or unwind): rec_stack is kept
            ELSE [st2 EXCEPT !.rec_stack = @ \ {task_id}, !.ret = FALSE]

\* lines 65-68: the loop over the task's dependencies
dfsDeps(ts, task_id, deps, j, path, st) ==
    IF j > Len(deps) THEN [st EXCEPT !.ret = FALSE]
    ELSE IF deps[j] \in TaskIdSet(ts)
         THEN LET r == dfs(ts, deps[j], Append(path, task_id), st)
              IN IF r.raised \/ r.ret THEN r
                 ELSE dfsDeps(ts, task_id, deps, j + 1, path, r)
         ELSE dfsDeps(ts, task_id, deps, j + 1, path, st)

\* lines 73-75: every task not yet visited is a root
RECURSIVE dfsRoots(_, _, _)
dfsRoots(ts, i, st) ==
    IF i > Len(ts) \/ st.raised THEN st
    ELSE IF ts[i].id \notin st.visited
         THEN dfsRoots(ts, i + 1, dfs(ts, ts[i].id, <<>>, st))
         ELSE dfsRoots(ts, i + 1, st)

detect_circular_dependencies(ts) ==
    LET st == dfsRoots(ts, 1, DfsStart)
    IN IF st.raised THEN Raised ELSE Returned(st.cycles)

-----------------------------------------------------------------------------
(* DependencyResolver.validate_dependencies *)

\* lines 90-97: the (task, missing_dep) entries, in list order
RECURSIVE MissingOfTask(_, _, _, _)
MissingOfTask(t, ids, j, acc) ==
    IF j > Len(t.dependencies) THEN acc
    ELSE MissingOfTask(t, ids, j + 1,
                       IF t.dependencies[j] \notin ids
                       THEN Append(acc, [task |-> t.id, missing_dep |-> t.dependencies[j]])
                       ELSE acc)

RECURSIVE MissingFrom(_, _, _)
MissingFrom(ts, i, acc) ==
    IF i > Len(ts) THEN acc
    ELSE MissingFrom(ts, i + 1, MissingOfTask(ts[i], TaskIdSet(ts), 1, acc))

validate_dependencies(ts) ==
    LET missing == MissingFrom(ts, 1, <<>>)
        cycles == detect_circular_dependencies(ts)
    IN IF cycles.kind = "raise" THEN Raised
       ELSE Returned([valid |-> (missing = <<>> /\ cycles.value = <<>>),
                      missing_dependencies |-> missing,
                      circular_dependencies |-> cycles.value,
                      warnings |-> <<>>])

-----------------------------------------------------------------------------
(* TaskOrchestrator.get_next_tasks *)

\* the statuses get_next_tasks tells apart are "pending" and "completed"; every
\* other status ("in_progress", "failed") takes the same path, and the drawn
\* lists carry one of them
Statuses == {"pending", "completed", "failed"}

\* a variant that looks only at the dependencies that are tasks of the list
dependencies_met_known(ts, t) ==
    \A dep \in Range(t.dependencies) :
        \A k \in DOMAIN ts : ts[k].id = dep => ts[k].status = "completed"

\* lines 263-266: all(any(t["id"] == dep and t["status"] == "completed" ...) ...)
dependencies_met(ts, t) ==
    \A dep \in Range(t.dependencies) :
        \E k \in DOMAIN ts : ts[k].id = dep /\ ts[k].status = "completed"

\* lines 260-271: the length test stands after the append
RECURSIVE ReadyLoop(_, _, _, _)
ReadyLoop(ts, mc, i, ready) ==
    IF i > Len(ts) THEN ready
    ELSE IF ts[i].status = "pending" /\ dependencies_met(ts, ts[i])
         THEN LET r == Append(ready, ts[i])
              IN IF Len(r) >= mc THEN r ELSE ReadyLoop(ts, mc, i + 1, r)
         ELSE ReadyLoop(ts, mc, i + 1, ready)

get_next_tasks(ts, mc) == ReadyLoop(ts, mc, 1, <<>>)

\* no get_next_tasks call was made
SchedulerIdle ==
    /\ max_concurrent = 0
    /\ ready_tasks = NotCalled

-----------------------------------------------------------------------------
(* TaskTemplate: the task templates of one orchestrator                    *)
(* Display texts (names, subtask labels) are given in English; the         *)
(* description text of a task is not modelled.                             *)

\* a requirement value that cannot be a dict key (a list, a dict)
Unhashable == "<unhashable>"

\* one template entry.  _merge_tasks writes the entry's key into its "id" (line
\* 127) before anything reads it; the entries carry their key as id from the
\* start, which is the state of a template once it went through a merge.
TemplateTask(id, name, type, priority, hours, deps, subtasks) ==
    [id |-> id, name |-> name, type |-> type, priority |-> priority,
     estimated_hours |-> hours, dependencies |-> deps, subtasks |-> subtasks]

\* task_templates.py lines 19-113
WebAppTemplate ==
    [order |-> <<"project_setup", "frontend_setup", "backend_setup", "database_setup",
                 "core_features", "testing", "deployment">>,
     tasks |->
       [project_setup |-> TemplateTask("project_setup", "project setup", "setup", 1, 2, <<>>,
            <<"create directories", "init package manager", "set up dev environment",
              "configure version control">>),
        frontend_setup |-> TemplateTask("frontend_setup", "frontend setup", "frontend", 2, 4, <<"project_setup">>,
            <<"install frontend framework", "configure routing", "set up styles",
              "create base components">>),
        backend_setup |-> TemplateTask("backend_setup", "backend setup", "backend", 2, 4, <<"project_setup">>,
            <<"install backend framework", "configure database connection", "set up API routes",
              "implement middleware">>),
        database_setup |-> TemplateTask("database_setup", "database design", "database", 3, 3, <<"backend_setup">>,
            <<"design data model", "create tables", "implement data access", "add validation">>),
        core_features |-> TemplateTask("core_features", "core features", "feature", 5, 12,
            <<"database_setup", "frontend_setup">>, <<>>),
        testing |-> TemplateTask("testing", "testing and QA", "testing", 7, 6, <<"core_features">>,
            <<"unit tests", "integration tests", "end to end tests", "performance tests">>),
        deployment |-> TemplateTask("deployment", "deployment", "deployment", 8, 3, <<"testing">>,
            <<"configure production", "set up CI/CD", "deploy to server",
              "configure monitoring">>)]]

\* task_templates.py lines 114-143
MobileAppTemplate ==
    [order |-> <<"project_setup", "navigation_setup">>,
     tasks |->
       [project_setup |-> TemplateTask("project_setup", "mobile project setup", "setup", 1, 2, <<>>,
            <<"create project", "configure dev environment", "set up simulator",
              "install dependencies">>),
        navigation_setup |-> TemplateTask("navigation_setup", "navigation setup", "navigation", 2, 3,
            <<"project_setup">>,
            <<"configure navigation library", "design page structure", "implement navigation",
              "add back logic">>)]]

\* task_templates.py lines 144-173
DataAnalysisTemplate ==
    [order |-> <<"project_setup", "data_collection">>,
     tasks |->
       [project_setup |-> TemplateTask("project_setup", "data analysis project setup", "setup", 1, 1, <<>>,
            <<"create Python environment", "install analysis libraries", "set up Jupyter",
              "prepare data directory">>),
        data_collection |-> TemplateTask("data_collection", "data collection", "data", 2, 4, <<"project_setup">>,
            <<"connect data sources", "collect data", "clean data", "validate data">>)]]

\* TaskTemplate._load_task_templates
load_task_templates ==
    [web_app |-> WebAppTemplate, mobile_app |-> MobileAppTemplate,
     data_analysis |-> DataAnalysisTemplate]

\* TaskTemplate.get_template_tasks: self.templates.get(project_type, web_app).
\* The dict it returns is the template itself, not a copy, so the model returns
\* its key in the templates.
get_template_tasks(tpls, project_type) ==
    IF project_type \in DOMAIN tpls THEN project_type ELSE "web_app"

-----------------------------------------------------------------------------
(* TaskOrchestrator.decompose_tasks and its steps *)

\* feature.get('name').lower().replace(' ', '_')
Slug(name) ==
    CASE name = "Login" -> "login"
      [] name = "User Profile" -> "user_profile"

\* f"feature_{i+1}_{slug}", i+1 being the 1-based position among ALL features
FeatureIds ==
    [login |-> <<"feature_1_login", "feature_2_login", "feature_3_login",
                 "feature_4_login">>,
     user_profile |-> <<"feature_1_user_profile", "feature_2_user_profile",
                        "feature_3_user_profile", "feature_4_user_profile">>]

FeatureId(pos, name) == FeatureIds[Slug(name)][pos]

\* the task name of a feature (line 66) and the subtask label built from it
\* for core_features (line 147)
FeatureTaskName(name) ==
    CASE name = "Login" -> "implement feature: Login"
      [] name = "User Profile" -> "implement feature: User Profile"

CoreSubtaskLabel(task_name) ==
    CASE task_name = "implement feature: Login" -> "implement implement feature: Login"
      [] task_name = "implement feature: User Profile"
            -> "implement implement feature: User Profile"

\* _generate_feature_subtasks: the AI collaborator's lines, or the four default
\* steps when it is unavailable (lines 107-114); the text is display only and
\* the model keeps the default steps
FeatureSubtasks(f) == <<"design data structure", "implement backend logic",
                        "create frontend view", "test the feature">>

\* lines 61-75: the tasks generated so far; a non-dict feature is skipped
RECURSIVE CustomFrom(_, _, _)
CustomFrom(features, i, acc) ==
    IF i > Len(features) THEN acc
    ELSE LET f == features[i]
         IN CustomFrom(features, i + 1,
              IF f.kind = "dict"
              THEN Append(acc, [id |-> FeatureId(i, f.name),
                                name |-> FeatureTaskName(f.name),
                                type |-> "feature",
                                priority |-> f.priority + 3,
                                estimated_hours |-> f.estimated_hours,
                                dependencies |-> <<"database_setup", "frontend_setup">>,
                                subtasks |-> FeatureSubtasks(f),
                                feature_data |-> f])
              ELSE acc)

\* _generate_custom_tasks: line 69 adds 3 to the priority, which raises
\* TypeError when the priority is a string
generate_custom_tasks(req) ==
    IF \E i \in DOMAIN req.features :
           req.features[i].kind = "dict" /\ req.features[i].priority_type = "str"
    THEN Raised
    ELSE Returned(CustomFrom(req.features, 1, <<>>))

\* lines 125-128: every template entry gets its key as "id" (written into the
\* template) and the entries form the list, in dict order
WithIds(tpl) ==
    [tpl EXCEPT !.tasks = [k \in DOMAIN tpl.tasks |-> [tpl.tasks[k] EXCEPT !.id = k]]]

TemplateList(tpl) == [i \in DOMAIN tpl.order |-> tpl.tasks[tpl.order[i]]]

\* lines 131-141: only the base dependencies that are template keys are put in
\* front; the dependencies the task already has are kept behind them
UpdatedCustom(tpl, custom_tasks) ==
    [i \in DOMAIN custom_tasks |->
        IF custom_tasks[i].type = "feature"
        THEN [custom_tasks[i] EXCEPT !.dependencies =
                 SelectSeq(<<"database_setup", "frontend_setup">>,
                           LAMBDA dep : dep \in DOMAIN tpl.tasks) \o @]
        ELSE custom_tasks[i]]

RECURSIVE SumHours(_, _)
SumHours(ts, n) == IF n = 0 THEN 0 ELSE ts[n].estimated_hours + SumHours(ts, n - 1)

HoursAreNumbers(ts) == \A i \in DOMAIN ts : ts[i].feature_data.hours_type = "int"

\* _merge_tasks: [raised, tpl (the template as left behind), all_tasks].
\* Lines 144-148 write the subtasks of core_features and then sum the hours;
\* the sum raises TypeError on a string, after the subtasks were written.
merge_tasks(tpl, custom_tasks) ==
    LET tpl1 == WithIds(tpl)
        updated == UpdatedCustom(tpl1, custom_tasks)
        rewrite == "core_features" \in DOMAIN tpl1.tasks /\ updated /= <<>>
        subs == [i \in DOMAIN updated |-> CoreSubtaskLabel(updated[i].name)]
        tpl2 == IF rewrite
                THEN [tpl1 EXCEPT !.tasks.core_features.subtasks = subs]
                ELSE tpl1
        tpl3 == IF rewrite /\ HoursAreNumbers(updated)
                THEN [tpl2 EXCEPT !.tasks.core_features.estimated_hours =
                                      SumHours(updated, Len(updated))]
                ELSE tpl2
    IN IF rewrite /\ ~HoursAreNumbers(updated)
       THEN [raised |-> TRUE, tpl |-> tpl2, all_tasks |-> <<>>]
       ELSE [raised |-> FALSE, tpl |-> tpl3, all_tasks |-> TemplateList(tpl3) \o updated]

\* a variant of the repair that leaves the dependency lists as they are
CleanDeps_Kept(ts) == ts

\* lines 162-167: every dependency id that is no task's id is dropped
CleanDeps(ts) ==
    [i \in DOMAIN ts |->
        [ts[i] EXCEPT !.dependencies =
            SelectSeq(@, LAMBDA dep : \E k \in DOMAIN ts : ts[k].id = dep)]]

\* the template after the repair wrote the dependency lists of its entries
\* (the first Len(order) tasks of the list are the template's own dicts)
WriteBackDeps(tpl, ts) ==
    [tpl EXCEPT !.tasks = [k \in DOMAIN tpl.tasks |->
        [tpl.tasks[k] EXCEPT !.dependencies = ts[IndexOf(tpl.order, k)].dependencies]]]

\* _resolve_dependencies: [raised, tpl, ordered_tasks].  validate_dependencies is
\* called outside the try, so its ValueError leaves the method; topological_sort
\* does not raise, so the sort by priority of lines 174-177 is never taken.
resolve_dependencies(tpl, ts) ==
    LET validation_result == validate_dependencies(ts)
    IN IF validation_result.kind = "raise"
       THEN [raised |-> TRUE, tpl |-> tpl, ordered_tasks |-> <<>>]
       ELSE IF ~validation_result.value.valid
            THEN LET cleaned == CleanDeps(ts)
                 IN [raised |-> FALSE, tpl |-> WriteBackDeps(tpl, cleaned),
                     ordered_tasks |-> topological_sort(cleaned)]
            ELSE [raised |-> FALSE, tpl |-> tpl, ordered_tasks |-> topological_sort(ts)]

\* line 188: the multiplier in tenths; an unknown complexity counts as 1.0
ComplexityTenths(complexity) ==
    CASE complexity = "low" -> 8
      [] complexity = "high" -> 13
      [] OTHER -> 10

\* line 195: int(hours * multiplier); the float product of an integer number of
\* hours and 0.8, 1.0 or 1.3 truncates to the integer quotient
ScaledHours(hours, complexity) == (hours * ComplexityTenths(complexity)) \div 10

\* whether task t is one of the generated ones whose hours are a string
HoursAreString(t) == "feature_data" \in DOMAIN t /\ t.feature_data.hours_type = "str"

\* lines 190-215: the copy of task i with hours, order, schedule and status;
\* the schedule is in hours from the moment of the call
RECURSIVE OptimizedFrom(_, _, _, _)
OptimizedFrom(ts, complexity, i, acc) ==
    IF i > Len(ts) THEN acc
    ELSE LET hours == ScaledHours(ts[i].estimated_hours, complexity)
             start == IF i = 1 THEN 0 ELSE acc[i - 1].estimated_end
             base == ts[i]
             optimized_task ==
                 [k \in DOMAIN base \cup {"execution_order", "estimated_start",
                                          "estimated_end", "status", "progress"} |->
                     CASE k = "estimated_hours" -> hours
                       [] k = "execution_order" -> i
                       [] k = "estimated_start" -> start
                       [] k = "estimated_end" -> start + hours
                       [] k = "status" -> "pending"
                       [] k = "progress" -> 0
                       [] OTHER -> base[k]]
         IN OptimizedFrom(ts, complexity, i + 1, Append(acc, optimized_task))

\* _optimize_tasks: dict.get(complexity) raises TypeError on an unhashable
\* complexity, and hours * multiplier raises TypeError on string hours
optimize_tasks(ts, complexity) ==
    IF complexity = Unhashable \/ \E i \in DOMAIN ts : HoursAreString(ts[i])
    THEN Raised
    ELSE Returned(OptimizedFrom(ts, complexity, 1, <<>>))

\* a variant of the fallback whose second task has the default dependencies of
\* a feature task
generate_fallback_tasks_default_deps ==
    <<[id |-> "project_setup", name |-> "project setup", type |-> "setup", priority |-> 1,
       estimated_hours |-> 2, dependencies |-> <<>>,
       subtasks |-> <<"create project directory", "init config files">>,
       execution_order |-> 1, estimated_start |-> 0, estimated_end |-> 2,
       status |-> "pending", progress |-> 0],
      [id |-> "core_development", name |-> "core development", type |-> "feature",
       priority |-> 2, estimated_hours |-> 8,
       dependencies |-> <<"database_setup", "frontend_setup">>,
       subtasks |-> <<"analyse requirement", "write code", "test">>,
       execution_order |-> 2, estimated_start |-> 2, estimated_end |-> 10,
       status |-> "pending", progress |-> 0]>>

\* _generate_fallback_tasks (lines 223-254)
generate_fallback_tasks ==
    <<[id |-> "project_setup", name |-> "project setup", type |-> "setup", priority |-> 1,
       estimated_hours |-> 2, dependencies |-> <<>>,
       subtasks |-> <<"create project directory", "init config files">>,
       execution_order |-> 1, estimated_start |-> 0, estimated_end |-> 2,
       status |-> "pending", progress |-> 0],
      [id |-> "core_development", name |-> "core development", type |-> "feature",
       priority |-> 2, estimated_hours |-> 8, dependencies |-> <<"project_setup">>,
       subtasks |-> <<"analyse requirement", "write code", "test">>,
       execution_order |-> 2, estimated_start |-> 2, estimated_end |-> 10,
       status |-> "pending", progress |-> 0]>>

\* decompose_tasks: [tpls (the templates as the call leaves them), raisedAt (the
\* step whose exception the except clause caught, or "none"), out (the outcome)]
decompose_tasks(tpls, req) ==
    IF req.project_type = Unhashable
    THEN [tpls |-> tpls, raisedAt |-> "lookup", out |-> Returned(generate_fallback_tasks)]
    ELSE
    LET key == get_template_tasks(tpls, req.project_type)
        custom == generate_custom_tasks(req)
    IN IF custom.kind = "raise"
       THEN [tpls |-> tpls, raisedAt |-> "generate", out |-> Returned(generate_fallback_tasks)]
       ELSE
       LET merged == merge_tasks(tpls[key], custom.value)
       IN IF merged.raised
          THEN [tpls |-> [tpls EXCEPT ![key] = merged.tpl], raisedAt |-> "merge",
                out |-> Returned(generate_fallback_tasks)]
          ELSE
          LET resolved == resolve_dependencies(merged.tpl, merged.all_tasks)
              tpls2 == [tpls EXCEPT ![key] = resolved.tpl]
          IN IF resolved.raised
             THEN [tpls |-> tpls2, raisedAt |-> "resolve",
                   out |-> Returned(generate_fallback_tasks)]
             ELSE
             LET optimized == optimize_tasks(resolved.ordered_tasks, req.complexity)
             IN IF optimized.kind = "raise"
                THEN [tpls |-> tpls2, raisedAt |-> "finalize",
                      out |-> Returned(generate_fallback_tasks)]
                ELSE [tpls |-> tpls2, raisedAt |-> "none", out |-> optimized]

-----------------------------------------------------------------------------
(* The parts of the state a specification does not exercise *)

\* no resolver call was made, on an empty list
ResolverIdle ==
    /\ tasks = <<>>
    /\ given = <<>>
    /\ sortOut = NotCalled
    /\ sortPrev = NotCalled
    /\ cyclesOut = NotCalled
    /\ validOut = NotCalled
    /\ validPrev = NotCalled

\* execute_development was not called: no list, no results, no background task
NoRun ==
    [pc |-> "idle", finalized |-> <<>>, store |-> <<>>, caller |-> <<>>, local |-> <<>>,
     rebound |-> FALSE, next |-> 0, current |-> 0, results |-> <<>>, executed |-> <<>>,
     is_monitoring |-> FALSE, loops |-> <<>>, opt |-> "none", passes |-> 0,
     auto_adjust_enabled |-> TRUE]

\* _execute_via_file_based was not called: no wait was started
NoWait ==
    [pc |-> "idle", monitor_duration |-> 0, elapsed |-> 0, status_file |-> "absent",
     files_changed |-> FALSE, ended |-> "none", raised_each |-> TRUE,
     verification |-> NotCalled, status |-> "in_progress"]

\* the StrategyAdjuster was not called: no list
NoPlan == [store |-> <<>>, list |-> <<>>, calls |-> 0, last |-> NotCalled]

\* a ProgressMonitor after __init__: no workspace, empty progress_data and
\* histories (start_time 0 stands for None; the clock reads 1 or more); the
\* workspace holds no file yet
NoEstimator ==
    [workspace |-> {}, exists |-> FALSE, start_time |-> 0, now |-> 1,
     files_changed |-> 0, average_quality |-> 0, analyses |-> {},
     quality_history |-> <<>>, completion_estimates |-> <<>>, loops |-> <<>>,
     observing |-> FALSE, trend |-> NotCalled]

\* no status call was made, no run was started, nothing is waited for, no
\* adjustment was made and nothing is monitored
AgentIdle ==
    /\ board = [tasks |-> <<>>, now |-> 0, last |-> NotCalled, report |-> NotCalled]
    /\ drive = NoRun
    /\ wait = NoWait
    /\ plan = NoPlan
    /\ estimator = NoEstimator

\* a fresh orchestrator that was given no requirement
DecomposeIdle ==
    /\ templates = load_task_templates
    /\ requirement = [project_type |-> "web_app", features |-> <<>>, complexity |-> "medium"]
    /\ result = NotCalled
    /\ raisedAt = "none"

-----------------------------------------------------------------------------
(* The resolver under arbitrary task lists *)

\* dependency ids a drawn list of n tasks may name
DepUniverse(n) == {TaskNames[i] : i \in 1..n} \cup {Ghost}

\* how many dependency entries each of n tasks has
DepShapes(n, maxEdges) == {l \in [1..n -> 0..maxEdges] : SumUpTo(l, n) <= maxEdges}

Slots(n, l) == UNION {{<<i, j>> : j \in 1..l[i]} : i \in 1..n}

\* the task list of n tasks with l[i] dependency entries d[<<i, j>>]
DrawnList(n, l, d) ==
    [i \in 1..n |-> [id |-> TaskNames[i],
                     dependencies |-> [j \in 1..l[i] |-> d[<<i, j>>]]]]

InitResolver ==
    /\ \E n \in 0..Min(MaxTasks, Len(TaskNames)) :
         \E l \in DepShapes(n, MaxEdges) :
           \E d \in [Slots(n, l) -> DepUniverse(n)] :
             /\ tasks = DrawnList(n, l, d)
             /\ given = DrawnList(n, l, d)
    /\ sortOut = NotCalled
    /\ sortPrev = NotCalled
    /\ cyclesOut = NotCalled
    /\ validOut = NotCalled
    /\ validPrev = NotCalled
    /\ SchedulerIdle
    /\ DecomposeIdle
    /\ AgentIdle

\* a variant that writes the order back into the caller's list (tasks[:] = sorted_tasks)
CallTopologicalSortInPlace ==
    /\ sortOut' = Returned(topological_sort(tasks))
    /\ sortPrev' = sortOut
    /\ tasks' = topological_sort(tasks)
    /\ UNCHANGED <<given, cyclesOut, validOut, validPrev, schedulerVars, decomposeVars, agentVars>>

\* resolver.topological_sort(tasks): builds its own maps and list, returns the
\* list; the argument is only read
CallTopologicalSort ==
    /\ sortOut' = Returned(topological_sort(tasks))
    /\ sortPrev' = sortOut
    /\ UNCHANGED <<tasks, given, cyclesOut, validOut, validPrev, schedulerVars, decomposeVars, agentVars>>

\* resolver.detect_circular_dependencies(tasks)
CallDetectCircular ==
    /\ cyclesOut' = detect_circular_dependencies(tasks)
    /\ UNCHANGED <<tasks, given, sortOut, sortPrev, validOut, validPrev, schedulerVars, decomposeVars, agentVars>>

\* resolver.validate_dependencies(tasks)
CallValidate ==
    /\ validOut' = validate_dependencies(tasks)
    /\ validPrev' = validOut
    /\ UNCHANGED <<tasks, given, sortOut, sortPrev, cyclesOut, schedulerVars, decomposeVars, agentVars>>

NextResolver ==
    \/ CallTopologicalSort
    \/ CallDetectCircular
    \/ CallValidate

SpecResolver == InitResolver /\ [][NextResolver]_vars

-----------------------------------------------------------------------------
(* What the claims about the resolver speak of *)

\* the dependencies of the task(s) with id x that are ids of the list
Succ(ts, x) ==
    {y \in TaskIdSet(ts) : \E i \in DOMAIN ts : ts[i].id = x /\ y \in Range(ts[i].dependencies)}

RECURSIVE ReachFrom(_, _, _)
ReachFrom(ts, frontier, seen) ==
    LET new == (UNION {Succ(ts, x) : x \in frontier}) \ seen
    IN IF new = {} THEN seen ELSE ReachFrom(ts, new, seen \cup new)

\* the ids reachable from x over one or more dependency edges
Reachable(ts, x) == ReachFrom(ts, {x}, {})

OnCycle(ts, x) == x \in Reachable(ts, x)

HasCycle(ts) == \E x \in TaskIdSet(ts) : OnCycle(ts, x)

FullyReferenced(ts) ==
    \A i \in DOMAIN ts : Range(ts[i].dependencies) \subseteq TaskIdSet(ts)

\* out holds every task of ts exactly once (the tasks of ts are distinct)
IsPermutation(out, ts) ==
    /\ Len(out) = Len(ts)
    /\ Range(out) = Range(ts)
    /\ \A i, j \in DOMAIN out : out[i] = out[j] => i = j

\* every dependency of every task of out stands strictly before the task
DepsBefore(out) ==
    \A i \in DOMAIN out :
        \A dep \in Range(out[i].dependencies) : \E j \in 1..(i - 1) : out[j].id = dep

\* c is a closed walk over dependency edges of ts: first id = last id
IsCycleOf(ts, c) ==
    /\ Len(c) >= 2
    /\ c[1] = c[Len(c)]
    /\ \A k \in 1..(Len(c) - 1) : c[k + 1] \in Succ(ts, c[k])

\* the (task, missing_dep) pairs of ts whose dependency id is no task's id
MissingPairs(ts) ==
    UNION {{[task |-> ts[i].id, missing_dep |-> d] :
               d \in {x \in Range(ts[i].dependencies) : x \notin TaskIdSet(ts)}} :
           i \in DOMAIN ts}

\* C1 (as claimed): for every acyclic, fully referenced task list,
\* topological_sort returns every task exactly once, each task after all of
\* its dependencies.
C1_SortIsTopologicalPermutation ==
    (sortOut.kind = "return" /\ ~HasCycle(tasks) /\ FullyReferenced(tasks))
        => (IsPermutation(sortOut.value, tasks) /\ DepsBefore(sortOut.value))

\* C2 (as claimed): on every task list that contains a dependency cycle,
\* detect_circular_dependencies returns at least one cycle, every returned
\* cycle is a cycle of the list, and validate_dependencies reports valid=false.
C2_CycleIsDetected ==
    HasCycle(tasks) =>
        /\ cyclesOut.kind /= "none" =>
             /\ cyclesOut.kind = "return"
             /\ cyclesOut.value /= <<>>
             /\ \A k \in DOMAIN cyclesOut.value : IsCycleOf(tasks, cyclesOut.value[k])
        /\ validOut.kind /= "none" =>
             /\ validOut.kind = "return"
             /\ validOut.value.valid = FALSE

\* C3 (as claimed): validate_dependencies and detect_circular_dependencies
\* return normally on every task list; neither ever raises.
C3_ValidationNeverRaises ==
    /\ cyclesOut.kind /= "raise"
    /\ validOut.kind /= "raise"

\* C4 (as claimed): on every task list validate_dependencies returns, lists
\* exactly the (task, missing_dep) pairs whose dependency is no task's id, and
\* reports valid=false whenever there is such a pair.
C4_AllMissingDependenciesListed ==
    validOut.kind /= "none" =>
        /\ validOut.kind = "return"
        /\ Range(validOut.value.missing_dependencies) = MissingPairs(tasks)
        /\ MissingPairs(tasks) /= {} => validOut.value.valid = FALSE

-----------------------------------------------------------------------------
(* get_next_tasks under arbitrary task lists and statuses *)

\* the drawn list with status st[i] given to task i
WithStatus(ts, st) ==
    [i \in DOMAIN ts |-> [id |-> ts[i].id, dependencies |-> ts[i].dependencies,
                          status |-> st[i]]]

InitScheduler ==
    /\ \E n \in 0..Min(MaxTasks, Len(TaskNames)) :
         \E l \in DepShapes(n, MaxSchedEdges) :
           \E d \in [Slots(n, l) -> DepUniverse(n)] :
             \E st \in [1..n -> Statuses] :
               /\ tasks = WithStatus(DrawnList(n, l, d), st)
               /\ given = WithStatus(DrawnList(n, l, d), st)
    /\ sortOut = NotCalled
    /\ sortPrev = NotCalled
    /\ cyclesOut = NotCalled
    /\ validOut = NotCalled
    /\ validPrev = NotCalled
    /\ SchedulerIdle
    /\ DecomposeIdle
    /\ AgentIdle

\* orchestrator.get_next_tasks(tasks, mc)
CallGetNextTasks(mc) ==
    /\ max_concurrent' = mc
    /\ ready_tasks' = Returned(get_next_tasks(tasks, mc))
    /\ UNCHANGED <<resolverVars, decomposeVars, agentVars>>

NextScheduler == \E mc \in 0..MaxConcurrent : CallGetNextTasks(mc)

SpecScheduler == InitScheduler /\ [][NextScheduler]_vars

\* the tasks of ts that are ready: pending, every dependency id the id of a
\* completed task of ts
IsReady(ts, t) ==
    /\ t.status = "pending"
    /\ \A dep \in Range(t.dependencies) :
         \E k \in DOMAIN ts : ts[k].id = dep /\ ts[k].status = "completed"

ReadyInOrder(ts) == SelectSeq(ts, LAMBDA t : IsReady(ts, t))

\* C5: get_next_tasks returns only tasks of the list that are pending and
\* whose every dependency id is the id of a completed task of the list; a
\* dependency id that matches no task keeps the task out.
C5_OnlyReadyTasksReturned ==
    ready_tasks.kind = "return" =>
        \A k \in DOMAIN ready_tasks.value :
            LET t == ready_tasks.value[k]
            IN /\ t \in Range(tasks)
               /\ t.status = "pending"
               /\ \A dep \in Range(t.dependencies) :
                    /\ dep \in TaskIdSet(tasks)
                    /\ \E j \in DOMAIN tasks : tasks[j].id = dep /\ tasks[j].status = "completed"

\* C5's case: a task with a completed dependency was returned while a pending
\* task with a dangling dependency was left out
C5_Witness ==
    /\ ready_tasks.kind = "return"
    /\ \E k \in DOMAIN ready_tasks.value : ready_tasks.value[k].dependencies /= <<>>
    /\ \E i \in DOMAIN tasks :
         /\ tasks[i].status = "pending"
         /\ Ghost \in Range(tasks[i].dependencies)
         /\ tasks[i] \notin Range(ready_tasks.value)
         /\ Len(ready_tasks.value) < max_concurrent

\* C6 (as claimed): for every max_concurrent >= 0, get_next_tasks returns at
\* most max_concurrent tasks, and they are the first ready tasks in list order.
C6_AtMostMaxConcurrentInOrder ==
    ready_tasks.kind = "return" =>
        /\ Len(ready_tasks.value) <= max_concurrent
        /\ ready_tasks.value =
             SubSeq(ReadyInOrder(tasks), 1, Min(max_concurrent, Len(ReadyInOrder(tasks))))

-----------------------------------------------------------------------------
(* decompose_tasks on one orchestrator, requirement after requirement *)

\* project types a requirement may name: the three with a template, one
\* without ("game"), and a value that is no dict key
ProjectTypes == {"web_app", "mobile_app", "data_analysis", "game", Unhashable}

\* complexities a requirement may name: the three known ones, an unknown one,
\* and a value that is no dict key
Complexities == {"low", "medium", "high", "extreme", Unhashable}

\* the features a requirement may list: two well-formed ones, a bare string,
\* one whose priority is a string, one whose estimated_hours is a string
Features ==
    {[kind |-> "dict", name |-> "Login", priority |-> 3, priority_type |-> "int",
      estimated_hours |-> 4, hours_type |-> "int"],
     [kind |-> "dict", name |-> "User Profile", priority |-> 1, priority_type |-> "int",
      estimated_hours |-> 2, hours_type |-> "int"],
     [kind |-> "str", name |-> "Login", priority |-> 0, priority_type |-> "int",
      estimated_hours |-> 0, hours_type |-> "int"],
     [kind |-> "dict", name |-> "Login", priority |-> 0, priority_type |-> "str",
      estimated_hours |-> 4, hours_type |-> "int"],
     [kind |-> "dict", name |-> "Login", priority |-> 3, priority_type |-> "int",
      estimated_hours |-> 0, hours_type |-> "str"]}

\* the requirement {}: every key takes the default of its .get (lines 33, 58, 187)
EmptyRequirement == [project_type |-> "web_app", features |-> <<>>, complexity |-> "medium"]

InitDecompose ==
    /\ ResolverIdle
    /\ SchedulerIdle
    /\ DecomposeIdle
    /\ AgentIdle

\* the caller names the project type of the run's requirement
SetProjectType(pt) ==
    /\ result = NotCalled
    /\ requirement.features = <<>>
    /\ requirement' = [requirement EXCEPT !.project_type = pt]
    /\ UNCHANGED <<templates, result, raisedAt, resolverVars, schedulerVars, agentVars>>

\* the caller names the complexity of the run's requirement
SetComplexity(cx) ==
    /\ result = NotCalled
    /\ requirement.features = <<>>
    /\ requirement' = [requirement EXCEPT !.complexity = cx]
    /\ UNCHANGED <<templates, result, raisedAt, resolverVars, schedulerVars, agentVars>>

\* the caller lists one more feature in the run's requirement
AddFeature(f) ==
    /\ result = NotCalled
    /\ Len(requirement.features) < Min(MaxFeatures, Len(FeatureIds.login))
    /\ requirement' = [requirement EXCEPT !.features = Append(@, f)]
    /\ UNCHANGED <<templates, result, raisedAt, resolverVars, schedulerVars, agentVars>>

\* the run is over; the same orchestrator is given the next requirement
NextRun ==
    /\ result /= NotCalled
    /\ requirement' = EmptyRequirement
    /\ result' = NotCalled
    /\ raisedAt' = "none"
    /\ UNCHANGED <<templates, resolverVars, schedulerVars, agentVars>>

\* tasks = await orchestrator.decompose_tasks(requirement): once in a run
DecomposeTasks ==
    LET r == decompose_tasks(templates, requirement)
    IN /\ result = NotCalled
       /\ templates' = r.tpls
       /\ result' = r.out
       /\ raisedAt' = r.raisedAt
       /\ UNCHANGED <<requirement, resolverVars, schedulerVars, agentVars>>

NextDecompose ==
    \/ \E pt \in ProjectTypes : SetProjectType(pt)
    \/ \E cx \in Complexities : SetComplexity(cx)
    \/ \E f \in Features : AddFeature(f)
    \/ DecomposeTasks
    \/ NextRun

SpecDecompose == InitDecompose /\ [][NextDecompose]_vars

\* the keys of the template that decompose_tasks uses for the requirement
TemplateKeysOf(req) ==
    Range(load_task_templates[get_template_tasks(load_task_templates, req.project_type)].order)

\* the positions of the requirement's features that are dicts
DictFeatures(req) == {i \in DOMAIN req.features : req.features[i].kind = "dict"}

\* how often id x occurs in the list
Occurrences(ts, x) == Cardinality({k \in DOMAIN ts : ts[k].id = x})

\* C7 (as claimed): the list decompose_tasks returns from a requirement it could
\* process holds every task of the project type's template and, for every
\* feature of the requirement, its generated task exactly once.
C7_NoFeatureTaskLost ==
    (result.kind = "return" /\ raisedAt = "none") =>
        /\ \A k \in TemplateKeysOf(requirement) : Occurrences(result.value, k) = 1
        /\ \A i \in DictFeatures(requirement) :
             Occurrences(result.value, FeatureId(i, requirement.features[i].name)) = 1

\* C8: in every list decompose_tasks returns, execution_order is the 1-based
\* list position, every dependency id is the id of a task of the list, and
\* every dependency stands before the task that depends on it.
C8_ReturnedListIsOrderedDag ==
    result.kind = "return" =>
        /\ \A i \in DOMAIN result.value : result.value[i].execution_order = i
        /\ FullyReferenced(result.value)
        /\ DepsBefore(result.value)

\* C8's case: a list with generated feature tasks was returned for a project
\* type whose template has neither database_setup nor frontend_setup
C8_Witness ==
    /\ result.kind = "return"
    /\ raisedAt = "none"
    /\ requirement.project_type = "mobile_app"
    /\ Len(result.value) = 4
    /\ \E i \in DOMAIN result.value : result.value[i].type = "feature"

\* C9: decompose_tasks never raises, and whenever one of its steps failed it
\* returns exactly two pending tasks, project_setup without dependencies and
\* core_development depending on project_setup: a fully referenced, acyclic list.
C9_FailureGivesValidFallback ==
    /\ result.kind /= "raise"
    /\ raisedAt /= "none" =>
         /\ result.kind = "return"
         /\ Len(result.value) = 2
         /\ result.value[1].id = "project_setup"
         /\ result.value[1].dependencies = <<>>
         /\ result.value[2].id = "core_development"
         /\ result.value[2].dependencies = <<"project_setup">>
         /\ \A i \in 1..2 : result.value[i].status = "pending"
         /\ FullyReferenced(result.value)
         /\ ~HasCycle(result.value)

\* C9's case: a step failed after the shared template had been written to
C9_Witness ==
    /\ raisedAt = "merge"
    /\ result.kind = "return"
    /\ templates /= load_task_templates

\* the multipliers the finalization names, in tenths
KnownComplexities == {"low", "medium", "high"}

\* the hours a returned task had before finalization: a generated task's come
\* from its feature, a template task's from the template entry (finalization
\* scales a copy, line 192)
OriginalHours(t) ==
    IF "feature_data" \in DOMAIN t
    THEN t.feature_data.estimated_hours
    ELSE templates[get_template_tasks(templates, requirement.project_type)]
             .tasks[t.id].estimated_hours

\* n is x tenths rounded down
IsFloorOfTenths(n, x) == 10 * n <= x /\ x < 10 * (n + 1)

\* C15 (as claimed): after finalization every task's estimated_hours is a
\* positive integer, the original hours times the complexity multiplier (low
\* 0.8, medium 1.0, high 1.3) rounded down.
C15_FinalHoursPositiveScaled ==
    (result.kind = "return" /\ raisedAt = "none"
        /\ requirement.complexity \in KnownComplexities) =>
        \A i \in DOMAIN result.value :
            LET t == result.value[i]
                tenths == CASE requirement.complexity = "low" -> 8
                            [] requirement.complexity = "medium" -> 10
                            [] requirement.complexity = "high" -> 13
            IN /\ IsFloorOfTenths(t.estimated_hours, OriginalHours(t) * tenths)
               /\ t.estimated_hours > 0

-----------------------------------------------------------------------------
(* topological_sort on lists whose tasks carry a priority *)

\* the dependency entries of a list with priorities
MaxTieEdges == 3

\* the priority of a task the caller said nothing about (the default of the
\* code's task.get("priority", 3)), and the priorities a caller may change it to
DefaultPriority == 3
Priorities == {1, DefaultPriority, 5}

\* the task list of n tasks with default priorities
PrioritizedList(n, l, d) ==
    [i \in 1..n |-> [id |-> TaskNames[i],
                     dependencies |-> [j \in 1..l[i] |-> d[<<i, j>>]],
                     priority |-> DefaultPriority]]

InitTieBreak ==
    /\ \E n \in 0..Min(MaxTasks, Len(TaskNames)) :
         \E l \in DepShapes(n, MaxTieEdges) :
           \E d \in [Slots(n, l) -> {TaskNames[i] : i \in 1..n}] :
             /\ tasks = PrioritizedList(n, l, d)
             /\ given = PrioritizedList(n, l, d)
    /\ sortOut = NotCalled
    /\ sortPrev = NotCalled
    /\ cyclesOut = NotCalled
    /\ validOut = NotCalled
    /\ validPrev = NotCalled
    /\ SchedulerIdle
    /\ DecomposeIdle
    /\ AgentIdle

\* the caller changes the priority of one task of the list it had sorted
Reprioritize(i, p) ==
    /\ sortOut /= NotCalled
    /\ tasks = given
    /\ p /= tasks[i].priority
    /\ tasks' = [tasks EXCEPT ![i].priority = p]
    /\ UNCHANGED <<given, sortOut, sortPrev, cyclesOut, validOut, validPrev,
                   schedulerVars, decomposeVars, agentVars>>

NextTieBreak ==
    \/ CallTopologicalSort
    \/ \E i \in DOMAIN tasks : \E p \in Priorities : Reprioritize(i, p)

SpecTieBreak == InitTieBreak /\ [][NextTieBreak]_vars

\* the ids of a list, in list order
IdsOf(ts) == [i \in DOMAIN ts |-> ts[i].id]

\* the greatest number of S, 0 for the empty set
MaxOf(S) == IF S = {} THEN 0 ELSE CHOOSE m \in S : \A k \in S : k <= m

\* the position in out at which task t became free of unresolved dependencies:
\* that of the last of its dependencies, 0 if it has none in the list
ReleasedAt(ts, out, t) ==
    MaxOf({k \in DOMAIN out : out[k].id \in Range(t.dependencies)})

\* C11: topological_sort emits tasks first in, first out: a task released
\* earlier stands before one released later, tasks released together stand in
\* input order; a change of priority leaves the order as it was; the list a,
\* b (deps a), c (deps a, b) comes out as a, b, c.
C11_SortIsFifoAndIgnoresPriority ==
    sortOut.kind = "return" =>
        LET out == sortOut.value
        IN /\ \A i, j \in DOMAIN out :
                i < j =>
                  LET ri == ReleasedAt(tasks, out, out[i])
                      rj == ReleasedAt(tasks, out, out[j])
                  IN \/ ri < rj
                     \/ /\ ri = rj
                        /\ IndexOf(IdsOf(tasks), out[i].id) < IndexOf(IdsOf(tasks), out[j].id)
           /\ sortPrev.kind = "return" => IdsOf(sortPrev.value) = IdsOf(out)
           /\ ( /\ Len(tasks) = 3
                /\ tasks[1].dependencies = <<>>
                /\ tasks[2].dependencies = <<"a">>
                /\ tasks[3].dependencies = <<"a", "b">> ) => IdsOf(out) = <<"a", "b", "c">>

\* C11's case: two tasks without dependencies were sorted again after the
\* second had been given the smaller priority number, and kept their order
C11_Witness ==
    /\ sortPrev.kind = "return"
    /\ sortOut.kind = "return"
    /\ Len(sortOut.value) >= 2
    /\ sortOut.value[1].dependencies = <<>>
    /\ sortOut.value[2].dependencies = <<>>
    /\ sortOut.value[2].priority < sortOut.value[1].priority

-----------------------------------------------------------------------------
(* TaskOrchestrator.update_task_status and get_project_progress *)

\* the calls of update_task_status in one behaviour
MaxUpdates == 3

\* the value of started_at / completed_at of a task dict without that key;
\* datetime.now() of the k-th update is k
Absent == 0

\* the four statuses of a task
TaskStatuses == {"pending", "in_progress", "completed", "failed"}

\* the progress argument: None (the default) or a percentage
ProgressArgs == {<<>>, <<50>>}

\* a task as _optimize_tasks leaves it: pending, progress 0, no timestamps
PendingTask(id) ==
    [id |-> id, status |-> "pending", progress |-> 0,
     started_at |-> Absent, completed_at |-> Absent]

\* an update that writes started_at on every in_progress update
UpdatedTask_restamped(task, status, progress, now) ==
    [task EXCEPT
        !.status = status,
        !.progress = IF progress /= <<>> THEN progress[1] ELSE @,
        !.completed_at = IF status = "completed" THEN now ELSE @,
        !.started_at = IF status = "in_progress" THEN now ELSE @]

\* the body of the loop of update_task_status for the task that has the id
UpdatedTask(task, status, progress, now) ==
    [task EXCEPT
        !.status = status,
        !.progress = IF progress /= <<>> THEN progress[1] ELSE @,
        !.completed_at = IF status = "completed" THEN now ELSE @,
        !.started_at = IF status = "in_progress" /\ @ = Absent THEN now ELSE @]

\* update_task_status: the first task with the id is updated, then break
update_task_status(ts, task_id, status, progress, now) ==
    IF task_id \in Range(IdsOf(ts))
    THEN LET i == IndexOf(IdsOf(ts), task_id)
         IN [ts EXCEPT ![i] = UpdatedTask(ts[i], status, progress, now)]
    ELSE ts

\* overall_progress in tenths of a percent: round(completed / total * 100, 1)
RoundedTenths(completed, total) == (2000 * completed + total) \div (2 * total)

\* the number of tasks of ts with the status
CountStatus(ts, status) == Cardinality({i \in DOMAIN ts : ts[i].status = status})

\* a report that takes a list without pending and in_progress tasks as completed
get_project_progress_no_pending(ts) ==
    IF ts = <<>>
    THEN [overall_progress |-> 0, status |-> "not_started"]
    ELSE LET completed_tasks == CountStatus(ts, "completed")
             total_tasks == Len(ts)
         IN [overall_progress |-> RoundedTenths(completed_tasks, total_tasks),
             status |-> IF CountStatus(ts, "pending") = 0 /\ CountStatus(ts, "in_progress") = 0
                        THEN "completed"
                        ELSE IF CountStatus(ts, "in_progress") > 0 THEN "in_progress"
                        ELSE "pending",
             completed_tasks |-> completed_tasks,
             total_tasks |-> total_tasks,
             in_progress_tasks |-> CountStatus(ts, "in_progress"),
             pending_tasks |-> CountStatus(ts, "pending")]

get_project_progress(ts) ==
    IF ts = <<>>
    THEN [overall_progress |-> 0, status |-> "not_started"]
    ELSE LET completed_tasks == CountStatus(ts, "completed")
             total_tasks == Len(ts)
         IN [overall_progress |-> RoundedTenths(completed_tasks, total_tasks),
             status |-> IF completed_tasks = total_tasks THEN "completed"
                        ELSE IF CountStatus(ts, "in_progress") > 0 THEN "in_progress"
                        ELSE "pending",
             completed_tasks |-> completed_tasks,
             total_tasks |-> total_tasks,
             in_progress_tasks |-> CountStatus(ts, "in_progress"),
             pending_tasks |-> CountStatus(ts, "pending")]

\* a task list fresh from decompose_tasks, no call made yet
InitStatus ==
    /\ ResolverIdle
    /\ SchedulerIdle
    /\ DecomposeIdle
    /\ \E n \in 0..Min(MaxTasks, Len(TaskNames)) :
         board = [tasks |-> [i \in 1..n |-> PendingTask(TaskNames[i])],
                  now |-> 0, last |-> NotCalled, report |-> NotCalled]
    /\ drive = NoRun
    /\ wait = NoWait
    /\ plan = NoPlan
    /\ estimator = NoEstimator

\* a call update_task_status(tasks, task_id, status, progress)
UpdateTaskStatus(task_id, status, progress) ==
    /\ board.now < MaxUpdates
    /\ board' = [tasks |-> update_task_status(board.tasks, task_id, status, progress, board.now + 1),
                 now |-> board.now + 1,
                 last |-> [kind |-> "update", task_id |-> task_id, status |-> status,
                           before |-> board.tasks],
                 report |-> NotCalled]
    /\ UNCHANGED <<resolverVars, schedulerVars, decomposeVars, drive, wait, plan, estimator>>

\* a call get_project_progress(tasks)
GetProjectProgress ==
    /\ board.report = NotCalled
    /\ board' = [board EXCEPT !.report = Returned(get_project_progress(board.tasks))]
    /\ UNCHANGED <<resolverVars, schedulerVars, decomposeVars, drive, wait, plan, estimator>>

NextStatus ==
    \/ \E task_id \in Range(IdsOf(board.tasks)) \cup {Ghost} :
         \E status \in TaskStatuses : \E progress \in ProgressArgs :
           UpdateTaskStatus(task_id, status, progress)
    \/ GetProjectProgress

SpecStatus == InitStatus /\ [][NextStatus]_vars

\* C13: after update_task_status(tasks, task_id, status) every task with
\* another id is as it was; the task with the id has the status, keeps a
\* started_at it already had, gets started_at = now when it enters
\* in_progress without one, and gets completed_at = now when the status is
\* completed.
C13_UpdateStampsOnceAndTouchesOneTask ==
    board.last.kind = "update" =>
        LET before == board.last.before
            after == board.tasks
        IN /\ Len(after) = Len(before)
           /\ \A i \in DOMAIN before :
                IF before[i].id /= board.last.task_id
                THEN after[i] = before[i]
                ELSE /\ after[i].id = before[i].id
                     /\ after[i].status = board.last.status
                     /\ after[i].started_at =
                          IF before[i].started_at /= Absent THEN before[i].started_at
                          ELSE IF board.last.status = "in_progress" THEN board.now
                          ELSE Absent
                     /\ after[i].completed_at =
                          IF board.last.status = "completed" THEN board.now
                          ELSE before[i].completed_at

\* C13's case: a task that was started earlier is put in_progress again, next
\* to another task
C13_Witness ==
    /\ board.last.kind = "update"
    /\ board.last.status = "in_progress"
    /\ Len(board.tasks) >= 2
    /\ \E i \in DOMAIN board.tasks :
         /\ board.tasks[i].id = board.last.task_id
         /\ board.last.before[i].started_at /= Absent
         /\ board.last.before[i].status /= "in_progress"
         /\ board.tasks[i].started_at < board.now

\* C14 as stated: overall_progress is exactly 100 x completed / total (0 for
\* the empty list) and the status is completed exactly when every task is
\* completed, otherwise in_progress if a task is in_progress, otherwise
\* pending. overall_progress is held in tenths of a percent.
C14_ProgressIsExactRatio ==
    board.report.kind = "return" =>
        LET ts == board.tasks
            r == board.report.value
        IN /\ r.overall_progress * Len(ts) = 1000 * CountStatus(ts, "completed")
           /\ r.status = IF \A i \in DOMAIN ts : ts[i].status = "completed" THEN "completed"
                         ELSE IF \E i \in DOMAIN ts : ts[i].status = "in_progress" THEN "in_progress"
                         ELSE "pending"

\* C14 amended: overall_progress is 100 x completed / total rounded to one
\* decimal place (0 for the empty list, 100 when every task is completed);
\* the empty list has the status not_started; a list with tasks is
\* completed exactly when every task is completed, otherwise in_progress if
\* a task is in_progress, otherwise pending.
C14_ProgressIsRoundedRatio ==
    board.report.kind = "return" =>
        LET ts == board.tasks
            r == board.report.value
            c == CountStatus(ts, "completed")
        IN IF ts = <<>>
           THEN r.overall_progress = 0 /\ r.status = "not_started"
           ELSE /\ 2 * Len(ts) * r.overall_progress <= 2000 * c + Len(ts)
                /\ 2000 * c - Len(ts) <= 2 * Len(ts) * r.overall_progress
                /\ (c = Len(ts)) => r.overall_progress = 1000
                /\ r.status = IF \A i \in DOMAIN ts : ts[i].status = "completed" THEN "completed"
                              ELSE IF \E i \in DOMAIN ts : ts[i].status = "in_progress" THEN "in_progress"
                              ELSE "pending"

\* C14's case: one task of three is completed and another is in progress; the
\* report says 33.3 and in_progress
C14_Witness ==
    /\ board.report.kind = "return"
    /\ Len(board.tasks) = 3
    /\ CountStatus(board.tasks, "completed") = 1
    /\ board.report.value.overall_progress = 333
    /\ board.report.value.status = "in_progress"

-----------------------------------------------------------------------------
(* AutoCursorAgent.execute_development with the optimizer and the monitor *)

\* the passes of continuous_optimization in one run
MaxPasses == 1

\* the types of the tasks of a run, by position in the list
RunTypes == <<"setup", "feature", "database", "testing", "deployment">>

\* core_task_types of _adjust_task_priorities
CoreTaskTypes == {"setup", "database", "core_features"}

\* what assess_project_quality finds in the progress data:
\*   good: overall_score >= quality_threshold and no issues
\*   fair: issues, overall_score >= 0.6
\*   poor: overall_score < 0.6
Assessments == {"good", "fair", "poor"}

\* what it finds in the progress data of a ProgressMonitor, whose
\* quality_metrics have no documentation key: the documentation issue is
\* always raised and overall_score is at most 0.66
MonitorAssessments == {"fair", "poor"}

\* the i-th task dict of the finalized list
RunTask(i) ==
    [id |-> TaskNames[i], type |-> RunTypes[i], priority |-> i, execution_order |-> i,
     adjusted |-> FALSE, dependencies |-> IF i = 1 THEN <<>> ELSE <<TaskNames[i - 1]>>,
     status |-> "pending", progress |-> 0, started_at |-> Absent, completed_at |-> Absent]

\* the two dicts _add_quality_tasks creates (keys they lack hold the value of
\* the .get default)
QualityTasks ==
    << [id |-> "quality_review", type |-> "quality", priority |-> 5, execution_order |-> 0,
        adjusted |-> FALSE, dependencies |-> <<>>,
        status |-> "pending", progress |-> 0, started_at |-> Absent, completed_at |-> Absent],
       [id |-> "test_enhancement", type |-> "testing", priority |-> 4, execution_order |-> 0,
        adjusted |-> FALSE, dependencies |-> <<>>,
        status |-> "pending", progress |-> 0, started_at |-> Absent, completed_at |-> Absent] >>

\* A list is a sequence of positions of the dict store: two lists that hold the
\* same position share the dict.
DictsOf(list, store) == [k \in DOMAIN list |-> store[list[k]]]

\* tasks.sort(key=lambda x: (-priority, execution_order)), a stable sort
SortedByPriority(list, store) ==
    LET Before(j, k) ==
            \/ store[list[j]].priority > store[list[k]].priority
            \/ /\ store[list[j]].priority = store[list[k]].priority
               /\ \/ store[list[j]].execution_order < store[list[k]].execution_order
                  \/ /\ store[list[j]].execution_order = store[list[k]].execution_order
                     /\ j < k
        rank(k) == Cardinality({j \in DOMAIN list : Before(j, k)}) + 1
    IN [p \in DOMAIN list |-> list[CHOOSE k \in DOMAIN list : rank(k) = p]]

\* a priority adjustment that also puts the adjusted task back to pending
adjust_task_priorities_resetting(list, store) ==
    LET raised == [x \in DOMAIN store |->
                     IF /\ x \in Range(list)
                        /\ store[x].type \in CoreTaskTypes
                        /\ store[x].status /= "completed"
                     THEN [store[x] EXCEPT !.priority = IF @ + 1 >= 5 THEN @ + 1 ELSE 5,
                                           !.adjusted = TRUE,
                                           !.status = "pending"]
                     ELSE IF x \in Range(list)
                          THEN [store[x] EXCEPT !.status = "pending"]
                          ELSE store[x]]
    IN [list |-> SortedByPriority(list, raised), store |-> raised]

\* _adjust_task_priorities: [list, store]
adjust_task_priorities(list, store) ==
    LET raised == [x \in DOMAIN store |->
                     IF /\ x \in Range(list)
                        /\ store[x].type \in CoreTaskTypes
                        /\ store[x].status /= "completed"
                     THEN [store[x] EXCEPT !.priority = IF @ + 1 >= 5 THEN @ + 1 ELSE 5,
                                           !.adjusted = TRUE]
                     ELSE store[x]]
    IN [list |-> SortedByPriority(list, raised), store |-> raised]

\* _add_quality_tasks: two fresh dicts are inserted behind as many tasks as
\* the list has completed ones
add_quality_tasks(list, store) ==
    LET insertion_point == Cardinality({k \in DOMAIN list : store[list[k]].status = "completed"})
        fresh == <<Len(store) + 1, Len(store) + 2>>
    IN [list |-> SubSeq(list, 1, insertion_point) \o fresh
                 \o SubSeq(list, insertion_point + 1, Len(list)),
        store |-> store \o QualityTasks]

\* the loop of apply_adjustments over adjustment['adjustments']
RECURSIVE ApplyEach(_, _, _)
ApplyEach(adjs, list, store) ==
    IF adjs = <<>> THEN [list |-> list, store |-> store]
    ELSE LET r == IF Head(adjs) = "priority_adjustment" THEN adjust_task_priorities(list, store)
                  ELSE IF Head(adjs) = "quality_focus" THEN add_quality_tasks(list, store)
                  ELSE [list |-> list, store |-> store]
         IN ApplyEach(Tail(adjs), r.list, r.store)

\* adjustments applied to the list that was passed, without a copy
apply_adjustments_in_place(ts, store, adjs) ==
    LET r == ApplyEach(adjs, ts, store)
    IN [tasks |-> r.list, adjusted_tasks |-> r.list, store |-> r.store]

\* apply_adjustments: the list passed as it is after the call, the list
\* returned (a copy: tasks.copy() shares the dicts), and the dict store
apply_adjustments(ts, store, adjs) ==
    LET r == ApplyEach(adjs, ts, store)
    IN [tasks |-> ts, adjusted_tasks |-> r.list, store |-> r.store]

\* adjustment['adjustments'] of adjust_development_strategy: quality_focus
\* below 0.6; priority_adjustment always, as the assessment has no
\* progress_score
adjust_development_strategy(assessment) ==
    (IF assessment = "poor" THEN <<"quality_focus">> ELSE <<>>) \o <<"priority_adjustment">>

\* optimize_development_process: whether optimization_result['adjustments']
\* is truthy, whether optimized_tasks is the list passed itself, and the lists
\* and dicts after the call
optimize_development_process(ts, store, assessment, auto_adjust_enabled) ==
    IF assessment = "good"
    THEN [adjustments |-> FALSE, same |-> TRUE, tasks |-> ts,
          optimized_tasks |-> ts, store |-> store]
    ELSE IF auto_adjust_enabled
         THEN LET r == apply_adjustments(ts, store, adjust_development_strategy(assessment))
              IN [adjustments |-> TRUE, same |-> FALSE, tasks |-> r.tasks,
                  optimized_tasks |-> r.adjusted_tasks, store |-> r.store]
         ELSE [adjustments |-> TRUE, same |-> TRUE, tasks |-> ts,
               optimized_tasks |-> ts, store |-> store]

\* the status execute_development writes when execute_task returned (line 115)
\* and when an exception reached its handler (line 135)
SuccessStatus == "completed"
FailureStatus_pending == "pending"
FailureStatus == "failed"

\* update_task_status(tasks, task_id, status) on a list of shared dicts: the
\* dict store after the call
UpdateStatusIn(list, store, task_id, status, now) ==
    LET updated == update_task_status(DictsOf(list, store), task_id, status, <<>>, now)
    IN [x \in DOMAIN store |->
          IF x \in Range(list) THEN updated[IndexOf(list, x)] ELSE store[x]]

\* the list the local name tasks of execute_development is bound to
LocalTasks == IF drive.rebound THEN drive.local ELSE drive.caller

\* the drive loop is suspended in an await: the event loop runs other tasks
AtAwait == drive.pc \in {"executing", "optimizing"}

\* no run was started; the orchestrator's other methods are not called
InitRun ==
    /\ ResolverIdle
    /\ SchedulerIdle
    /\ DecomposeIdle
    /\ AgentIdle

\* execute_development(tasks, workspace_path, ...) up to the for loop, called
\* by process_requirement (which has started the monitor if workspace_path is
\* truthy) or directly.  start_monitoring(None) raises in Path(None).
StartRun(n, has_workspace, via_process_requirement, auto_adjust_enabled) ==
    /\ drive.pc = "idle"
    /\ drive' =
         IF ~has_workspace
         THEN [NoRun EXCEPT !.pc = "raised",
                            !.finalized = [i \in 1..n |-> TaskNames[i]],
                            !.store = [i \in 1..n |-> RunTask(i)],
                            !.caller = [i \in 1..n |-> i],
                            !.auto_adjust_enabled = auto_adjust_enabled]
         ELSE [NoRun EXCEPT !.pc = "fetch",
                            !.finalized = [i \in 1..n |-> TaskNames[i]],
                            !.store = [i \in 1..n |-> RunTask(i)],
                            !.caller = [i \in 1..n |-> i],
                            !.is_monitoring = TRUE,
                            !.loops = IF via_process_requirement THEN <<"created", "created">>
                                      ELSE <<"created">>,
                            !.opt = "created",
                            !.auto_adjust_enabled = auto_adjust_enabled]
    /\ UNCHANGED <<resolverVars, schedulerVars, decomposeVars, board, wait, plan, estimator>>

\* for task in tasks: the list iterator yields the next item of the list
\* object it was created on, and execute_task is awaited
FetchTask ==
    /\ drive.pc = "fetch"
    /\ drive.next < Len(drive.caller)
    /\ drive' = [drive EXCEPT !.pc = "executing",
                              !.next = @ + 1,
                              !.current = drive.caller[drive.next + 1],
                              !.executed = Append(@, drive.store[drive.caller[drive.next + 1]].id)]
    /\ UNCHANGED <<resolverVars, schedulerVars, decomposeVars, board, wait, plan, estimator>>

\* execute_task returned a result (status completed or failed, it catches its
\* own exceptions): lines 112-120
ExecuteReturns(status) ==
    /\ drive.pc = "executing"
    /\ LET results == Append(drive.results, [kind |-> "result", task |-> drive.current,
                                             status |-> status])
       IN drive' = [drive EXCEPT
            !.results = results,
            !.store = UpdateStatusIn(LocalTasks, @, drive.store[drive.current].id,
                                     SuccessStatus, Len(results)),
            !.pc = IF Len(results) % 3 = 0 THEN "optimizing" ELSE "fetch"]
    /\ UNCHANGED <<resolverVars, schedulerVars, decomposeVars, board, wait, plan, estimator>>

\* an exception reached the handler of lines 132-135, out of the awaited
\* execute_task or out of the periodic optimization
TaskRaises ==
    /\ AtAwait
    /\ LET results == Append(drive.results, [kind |-> "error", task |-> drive.current,
                                             status |-> "error"])
       IN drive' = [drive EXCEPT
            !.results = results,
            !.store = UpdateStatusIn(LocalTasks, @, drive.store[drive.current].id,
                                     FailureStatus, Len(results)),
            !.pc = "fetch"]
    /\ UNCHANGED <<resolverVars, schedulerVars, decomposeVars, board, wait, plan, estimator>>

\* the periodic optimize_development_process(tasks, ...) returned: lines
\* 123-130; tasks is rebound when adjustments is truthy
OptimizeReturns(assessment) ==
    /\ drive.pc = "optimizing"
    /\ LET r == optimize_development_process(LocalTasks, drive.store, assessment,
                                             drive.auto_adjust_enabled)
       IN drive' = [drive EXCEPT
            !.store = r.store,
            !.caller = IF drive.rebound THEN @ ELSE r.tasks,
            !.local = IF r.adjustments /\ ~r.same THEN r.optimized_tasks
                      ELSE IF drive.rebound THEN r.tasks ELSE @,
            !.rebound = @ \/ (r.adjustments /\ ~r.same),
            !.pc = "fetch"]
    /\ UNCHANGED <<resolverVars, schedulerVars, decomposeVars, board, wait, plan, estimator>>

\* the for loop is exhausted: finally, stop_monitoring() and
\* optimization_task.cancel(), then await optimization_task
StopRun ==
    /\ drive.pc = "fetch"
    /\ drive.next >= Len(drive.caller)
    /\ drive' = [drive EXCEPT !.pc = "stopping", !.is_monitoring = FALSE, !.current = 0]
    /\ UNCHANGED <<resolverVars, schedulerVars, decomposeVars, board, wait, plan, estimator>>

\* the cancelled optimization task ends with CancelledError, which lines
\* 141-144 swallow; execute_development returns results
FinishRun ==
    /\ drive.pc = "stopping"
    /\ drive' = [drive EXCEPT !.pc = "done", !.opt = "cancelled"]
    /\ UNCHANGED <<resolverVars, schedulerVars, decomposeVars, board, wait, plan, estimator>>

\* the event loop runs the k-th _monitoring_loop task: a created task starts
\* and a sleeping one wakes; it tests is_monitoring, and sleeps or returns
MonitoringLoopRuns(k) ==
    /\ AtAwait \/ drive.pc = "stopping"
    /\ \/ drive.loops[k] = "created"
       \/ drive.loops[k] = "sleeping" /\ ~drive.is_monitoring
    /\ drive' = [drive EXCEPT !.loops[k] = IF drive.is_monitoring THEN "sleeping"
                                            ELSE "finished"]
    /\ UNCHANGED <<resolverVars, schedulerVars, decomposeVars, board, wait, plan, estimator>>

\* the event loop starts continuous_optimization, which sleeps check_interval
ContinuousOptimizationStarts ==
    /\ AtAwait
    /\ drive.opt = "created"
    /\ drive' = [drive EXCEPT !.opt = "sleeping"]
    /\ UNCHANGED <<resolverVars, schedulerVars, decomposeVars, board, wait, plan, estimator>>

\* continuous_optimization wakes and calls optimize_development_process on
\* the list it was created with; the result goes to optimization_history only
ContinuousOptimizationPass(assessment) ==
    /\ AtAwait
    /\ drive.opt = "sleeping"
    /\ drive.passes < MaxPasses
    /\ LET r == optimize_development_process(drive.caller, drive.store, assessment,
                                             drive.auto_adjust_enabled)
       IN drive' = [drive EXCEPT
            !.store = r.store,
            !.caller = r.tasks,
            !.passes = @ + 1]
    /\ UNCHANGED <<resolverVars, schedulerVars, decomposeVars, board, wait, plan, estimator>>

NextDrive ==
    \/ \E n \in 0..Min(MaxTasks, Len(TaskNames)) :
         \E has_workspace, via_process_requirement, auto_adjust_enabled \in BOOLEAN :
           StartRun(n, has_workspace, via_process_requirement, auto_adjust_enabled)
    \/ FetchTask
    \/ \E status \in {"completed", "failed"} : ExecuteReturns(status)
    \/ TaskRaises
    \/ \E assessment \in MonitorAssessments : OptimizeReturns(assessment)
    \/ StopRun
    \/ FinishRun
    \/ \E k \in DOMAIN drive.loops : MonitoringLoopRuns(k)
    \/ ContinuousOptimizationStarts
    \/ \E assessment \in MonitorAssessments : ContinuousOptimizationPass(assessment)

SpecRun == InitRun /\ [][NextDrive]_vars

\* how far a status is along pending, in_progress, completed or failed
StatusRank(status) ==
    CASE status = "pending" -> 0
      [] status = "in_progress" -> 1
      [] OTHER -> 2

\* C12: during a run no status update moves a task backwards: a task never
\* returns to an earlier stage of pending, in_progress, completed or failed,
\* so a completed or failed task never becomes pending again.
C12_StatusNeverMovesBack ==
    [][\A x \in DOMAIN drive.store :
          /\ x \in DOMAIN drive'.store
          /\ StatusRank(drive'.store[x].status) >= StatusRank(drive.store[x].status)
          /\ drive.store[x].status \in {"completed", "failed"}
               => drive'.store[x].status /= "pending"]_vars

\* C12's case: a task that was completed got a second status update (the
\* periodic optimization raised after it) and is failed, not pending
C12_Witness ==
    \E x \in DOMAIN drive.store :
        /\ drive.store[x].status = "failed"
        /\ drive.store[x].completed_at /= Absent

C17_NoBackgroundTaskLeft ==
    drive.pc \in {"done", "raised"} =>
        /\ \A k \in DOMAIN drive.loops : drive.loops[k] = "finished"
        /\ drive.opt \in {"cancelled", "none"}

\* C18: when the drive loop is over, every task of the list that tasks is
\* bound to, inserted ones included, is completed or failed.
C18_AllTasksTerminalAtEnd ==
    drive.pc = "done" =>
        \A k \in DOMAIN LocalTasks :
            drive.store[LocalTasks[k]].status \in {"completed", "failed"}

\* C20: a step changes the id and the dependencies of no existing task, and
\* changes a status only when it is the update_task_status that follows a
\* result (or an error) of the task in execution, and then of that task only;
\* optimization passes and monitoring steps change no status.
C20_OnlyUpdateChangesStatus ==
    [][\A x \in DOMAIN drive.store :
          /\ x \in DOMAIN drive'.store
          /\ drive'.store[x].id = drive.store[x].id
          /\ drive'.store[x].dependencies = drive.store[x].dependencies
          /\ drive'.store[x].status /= drive.store[x].status
               => /\ Len(drive'.results) = Len(drive.results) + 1
                  /\ x = drive.current]_vars

\* C20's case: both strategy adjustments acted on a list with a completed
\* task: priorities were raised and quality tasks inserted
C20_Witness ==
    /\ drive.rebound
    /\ Len(drive.local) > Len(drive.caller)
    /\ drive.passes > 0
    /\ \E x \in DOMAIN drive.store : drive.store[x].adjusted
    /\ \E x \in DOMAIN drive.store : drive.store[x].status = "completed"

\* C27: the drive loop hands a task to execute_task only when it is ready:
\* every dependency of the task in execution has status completed, and none
\* of them is a task whose execution failed.
C27_OnlyReadyTasksStarted ==
    drive.pc = "executing" =>
        \A k \in DOMAIN drive.store[drive.current].dependencies :
            \E x \in DOMAIN drive.store :
                /\ drive.store[x].id = drive.store[drive.current].dependencies[k]
                /\ drive.store[x].status = "completed"
                /\ \A r \in DOMAIN drive.results :
                       drive.results[r].task = x => drive.results[r].status = "completed"

\* C28: a task whose execute_task ended with result status failed has status
\* failed, never completed.
C28_FailedResultNeverCompleted ==
    \A r \in DOMAIN drive.results :
        (drive.results[r].kind = "result" /\ drive.results[r].status = "failed")
            => drive.store[drive.results[r].task].status = "failed"

-----------------------------------------------------------------------------
(* CursorInterface._execute_via_file_based: the wait for the editor *)

\* the greatest monitor_duration, in units of check_interval (10 seconds)
MaxDuration == 3

\* what the status file of the task holds: nothing (no file), the "created"
\* record of _create_task_file, the editor's "completed" record, or text that
\* json.load rejects
StatusFiles == {"absent", "created", "completed", "corrupt"}

\* a verification that fails the task when nothing was observed
verify_task_completion_strict(status_file, files_changed) ==
    IF status_file = "completed"
    THEN [status_file_completed |-> TRUE, files_changed |-> files_changed, status |-> "completed"]
    ELSE [status_file_completed |-> FALSE, files_changed |-> files_changed,
          status |-> IF files_changed THEN "completed" ELSE "failed"]

\* _verify_task_completion and the assignment that follows it in
\* execute_task: result["verification"] (files_changed is False where the code
\* leaves the key out) and result["status"]
verify_task_completion(status_file, files_changed) ==
    IF status_file = "completed"
    THEN [status_file_completed |-> TRUE, files_changed |-> FALSE, status |-> "completed"]
    ELSE [status_file_completed |-> FALSE, files_changed |-> files_changed,
          status |-> "completed"]

InitMonitor ==
    /\ ResolverIdle
    /\ SchedulerIdle
    /\ DecomposeIdle
    /\ AgentIdle

\* _execute_via_file_based up to the wait: the status file is written, Cursor
\* is started; without a process the wait is skipped
StartWait(monitor_duration, cursor_process) ==
    /\ wait.pc = "idle"
    /\ wait' = [NoWait EXCEPT !.pc = IF cursor_process THEN "polling" ELSE "verifying",
                              !.monitor_duration = monitor_duration,
                              !.status_file = "created"]
    /\ UNCHANGED <<resolverVars, schedulerVars, decomposeVars, board, drive, plan, estimator>>

\* the editor (or the user) rewrites or removes the status file
EditorWrites(content) ==
    /\ wait.pc \in {"polling", "verifying"}
    /\ content /= wait.status_file
    /\ wait' = [wait EXCEPT !.status_file = content]
    /\ UNCHANGED <<resolverVars, schedulerVars, decomposeVars, board, drive, plan, estimator>>

\* one round of the while loop of _monitor_task_progress: the status file says
\* completed (break), or the round raises (a corrupt status file always does),
\* or _detect_file_changes reports changes or none; every round that does not
\* break sleeps check_interval, so at least one unit of time passes
Poll(raises, changes, units) ==
    /\ wait.pc = "polling"
    /\ wait.elapsed < wait.monitor_duration
    /\ wait.status_file = "corrupt" => raises
    /\ raises => ~changes
    /\ wait' =
         IF ~raises /\ wait.status_file = "completed"
         THEN [wait EXCEPT !.pc = "verifying", !.ended = "completed", !.raised_each = FALSE]
         ELSE [wait EXCEPT !.elapsed = Min(@ + units, MaxDuration + 1),
                           !.files_changed = @ \/ changes,
                           !.raised_each = @ /\ raises]
    /\ UNCHANGED <<resolverVars, schedulerVars, decomposeVars, board, drive, plan, estimator>>

\* the while condition is false: monitor_duration has elapsed
TimeOut ==
    /\ wait.pc = "polling"
    /\ wait.elapsed >= wait.monitor_duration
    /\ wait' = [wait EXCEPT !.pc = "verifying", !.ended = "timeout"]
    /\ UNCHANGED <<resolverVars, schedulerVars, decomposeVars, board, drive, plan, estimator>>

\* _verify_task_completion, then result["status"] = "completed"
Verify ==
    /\ wait.pc = "verifying"
    /\ LET v == verify_task_completion(wait.status_file, wait.files_changed)
       IN wait' = [wait EXCEPT !.pc = "done",
                               !.verification = Returned([status_file_completed |-> v.status_file_completed,
                                                          files_changed |-> v.files_changed]),
                               !.status = v.status]
    /\ UNCHANGED <<resolverVars, schedulerVars, decomposeVars, board, drive, plan, estimator>>

\* the steps of the agent
WaitStep ==
    \/ \E raises, changes \in BOOLEAN : \E units \in 1..2 : Poll(raises, changes, units)
    \/ TimeOut
    \/ Verify

NextMonitor ==
    \/ \E monitor_duration \in 0..MaxDuration : \E cursor_process \in BOOLEAN :
         StartWait(monitor_duration, cursor_process)
    \/ \E content \in StatusFiles : EditorWrites(content)
    \/ WaitStep

\* the coroutine is resumed whenever its sleep is over, whatever the editor does
SpecMonitor ==
    InitMonitor /\ [][NextMonitor]_vars /\ WF_vars(WaitStep)

\* C19: a wait that was started ends, by a completed status file or by the
\* elapse of monitor_duration, whatever the polls do; and when it ended by
\* timeout with no file change recorded and no completed status file, the
\* verification says files_changed False and the result status is completed,
\* not failed.
C19_WaitEndsAndTimeoutIsNoChange ==
    /\ (wait.pc = "polling") ~> (wait.pc = "done" /\ wait.ended \in {"completed", "timeout"})
    /\ [](wait.pc = "done" =>
            /\ wait.status = "completed"
            /\ (wait.ended = "timeout" /\ ~wait.files_changed /\ wait.status_file /= "completed")
                 => wait.verification = Returned([status_file_completed |-> FALSE,
                                                  files_changed |-> FALSE]))

\* C19's case: every poll raised until monitor_duration had elapsed, nothing
\* was recorded, and the task was verified and is completed
C19_Witness ==
    /\ wait.pc = "done"
    /\ wait.ended = "timeout"
    /\ wait.raised_each
    /\ wait.elapsed >= wait.monitor_duration
    /\ wait.monitor_duration >= 2
    /\ ~wait.files_changed
    /\ wait.status = "completed"

-----------------------------------------------------------------------------
(* StrategyAdjuster and AutoOptimizer called on a task list *)

\* the calls made on one task list
MaxAdjustCalls == 2

\* the record of a call: what was passed and what the strategy emitted
AdjustCall(op, assessment, progress_ok, emitted) ==
    [kind |-> "call", op |-> op, assessment |-> assessment, progress_ok |-> progress_ok,
     emitted |-> emitted, before |-> plan.list, before_store |-> plan.store]

\* a task list whose tasks are in any of the four statuses
InitAdjust ==
    /\ ResolverIdle
    /\ SchedulerIdle
    /\ DecomposeIdle
    /\ board = [tasks |-> <<>>, now |-> 0, last |-> NotCalled, report |-> NotCalled]
    /\ drive = NoRun
    /\ wait = NoWait
    /\ estimator = NoEstimator
    /\ \E n \in 0..Min(MaxTasks, Len(TaskNames)) :
         \E status \in [1..n -> TaskStatuses] :
           plan = [NoPlan EXCEPT !.store = [i \in 1..n |-> [RunTask(i) EXCEPT !.status = status[i]]],
                                 !.list = [i \in 1..n |-> i]]

\* a call _add_quality_tasks(tasks): the list is changed in place
AddQualityTasks ==
    /\ plan.calls < MaxAdjustCalls
    /\ LET r == add_quality_tasks(plan.list, plan.store)
       IN plan' = [store |-> r.store, list |-> r.list, calls |-> plan.calls + 1,
                   last |-> AdjustCall("add_quality_tasks", "none", FALSE, <<>>)]
    /\ UNCHANGED <<resolverVars, schedulerVars, decomposeVars, board, drive, wait, estimator>>

\* a call _adjust_task_priorities(tasks): the list is changed in place
AdjustTaskPriorities ==
    /\ plan.calls < MaxAdjustCalls
    /\ LET r == adjust_task_priorities(plan.list, plan.store)
       IN plan' = [store |-> r.store, list |-> r.list, calls |-> plan.calls + 1,
                   last |-> AdjustCall("adjust_task_priorities", "none", FALSE, <<>>)]
    /\ UNCHANGED <<resolverVars, schedulerVars, decomposeVars, board, drive, wait, estimator>>

\* optimization = optimize_development_process(tasks, progress_data), then
\* tasks = optimized_tasks if adjustments were made (as lines 124-130 of
\* main.py do); progress_ok says whether the progress data shows a completion
\* rate of 0.5 or more, which no line of the optimizer reads
OptimizePass(assessment, progress_ok, auto_adjust_enabled) ==
    /\ plan.calls < MaxAdjustCalls
    /\ LET r == optimize_development_process(plan.list, plan.store, assessment,
                                             auto_adjust_enabled)
       IN plan' = [store |-> r.store,
                   list |-> IF r.adjustments THEN r.optimized_tasks ELSE r.tasks,
                   calls |-> plan.calls + 1,
                   last |-> AdjustCall("optimize_development_process", assessment, progress_ok,
                                       IF r.adjustments
                                       THEN adjust_development_strategy(assessment)
                                       ELSE <<>>)]
    /\ UNCHANGED <<resolverVars, schedulerVars, decomposeVars, board, drive, wait, estimator>>

NextAdjust ==
    \/ AddQualityTasks
    \/ AdjustTaskPriorities
    \/ \E assessment \in Assessments : \E progress_ok, auto_adjust_enabled \in BOOLEAN :
         OptimizePass(assessment, progress_ok, auto_adjust_enabled)

SpecAdjust == InitAdjust /\ [][NextAdjust]_vars

\* C21: after _add_quality_tasks every completed task of the list stands
\* before the two inserted tasks and every other task stands after them.
C21_QualityTasksAtBoundary ==
    (plan.last.kind = "call" /\ plan.last.op = "add_quality_tasks") =>
        \A k, f \in DOMAIN plan.list :
            (plan.list[f] > Len(plan.last.before_store) /\ plan.list[k] <= Len(plan.last.before_store)) =>
                IF plan.store[plan.list[k]].status = "completed" THEN k < f ELSE k > f

\* C22: no two tasks of the task list have the same id, after any number of
\* optimization passes.
C22_TaskIdsUnique ==
    \A j, k \in DOMAIN plan.list :
        j /= k => plan.store[plan.list[j]].id /= plan.store[plan.list[k]].id

\* C30: an optimization pass on a project whose overall_score is at least 0.6
\* (assessment good or fair) and whose progress is at least 0.5 emits no
\* adjustment and leaves the list, its order and every priority as they were.
C30_HealthyProjectLeftAlone ==
    ( /\ plan.last.kind = "call"
      /\ plan.last.op = "optimize_development_process"
      /\ plan.last.assessment \in {"good", "fair"}
      /\ plan.last.progress_ok ) =>
        /\ plan.last.emitted = <<>>
        /\ plan.list = plan.last.before
        /\ \A x \in DOMAIN plan.last.before_store :
              plan.store[x].priority = plan.last.before_store[x].priority

-----------------------------------------------------------------------------
(* decompose_tasks and the shared templates *)

\* C29: decompose_tasks depends only on its requirement: what a call gives
\* on an orchestrator that has served other requirements before is what it
\* gives on a new orchestrator, whose templates are as loaded.
C29_DependsOnlyOnRequirement ==
    result /= NotCalled => result = decompose_tasks(load_task_templates, requirement).out

-----------------------------------------------------------------------------
(* ProgressMonitor and CodeQualityAnalyzer: the estimator.  Scores are
   fixed-point numbers: One stands for 1.0. *)

One == 36000
Tenths(n) == (n * One) \div 10

Max(a, b) == IF a >= b THEN a ELSE b

\* the monitoring interval of the configuration, in seconds; the clock of
\* the estimator counts intervals
CheckInterval == 720

MaxFiles == 2
MaxChanged == 9
MaxTicks == 2
MaxStartDelay == 1

\* paths one burst of watchdog events adds to files_created and files_modified
FilesPerBurst == 3

\* what a file holds, as far as the analyzers read it: whether reading or
\* parsing raises; text: the lines of content.split('\n') and how many are
\* long, empty, comments; tree: branches, functions, classes and documented
\* items of the syntax tree; markers: the three JavaScript markers
FileContent(name, ext, raises, text, tree, markers) ==
    [name |-> name, ext |-> ext, raises |-> raises, lines |-> text[1],
     long_lines |-> text[2], empty_lines |-> text[3], comment_lines |-> text[4],
     branches |-> tree[1], functions |-> tree[2], classes |-> tree[3],
     documented |-> tree[4], has_functions |-> markers[1], has_comments |-> markers[2],
     has_error_handling |-> markers[3]]

\* the files a workspace may hold: an empty .py file, one with a single
\* comment line, one with a syntax error, a tidy and a tangled module, and
\* two .js files (a short plain one and a long complete one)
FileContents ==
    {FileContent("empty.py", "py", FALSE, <<1, 0, 1, 0>>, <<0, 0, 0, 0>>, <<FALSE, FALSE, FALSE>>),
     FileContent("comment.py", "py", FALSE, <<1, 0, 0, 1>>, <<0, 0, 0, 0>>, <<FALSE, FALSE, FALSE>>),
     FileContent("broken.py", "py", TRUE, <<3, 0, 0, 0>>, <<0, 0, 0, 0>>, <<FALSE, FALSE, FALSE>>),
     FileContent("tidy.py", "py", FALSE, <<20, 0, 2, 3>>, <<1, 2, 0, 1>>, <<FALSE, FALSE, FALSE>>),
     FileContent("tangled.py", "py", FALSE, <<30, 5, 0, 0>>, <<9, 2, 1, 1>>, <<FALSE, FALSE, FALSE>>),
     FileContent("plain.js", "js", FALSE, <<50, 0, 5, 0>>, <<0, 0, 0, 0>>, <<TRUE, FALSE, FALSE>>),
     FileContent("complete.js", "js", FALSE, <<250, 0, 20, 10>>, <<0, 0, 0, 0>>, <<TRUE, TRUE, TRUE>>)}

\* _calculate_complexity: 1, plus 1 for every if, while, for and try, plus 1
\* for every function definition
calculate_complexity(f) == 1 + f.branches + f.functions

\* the complexity score without the cap at 1.0
complexity_score_uncapped(complexity) == (complexity * One) \div 10

\* 'complexity': min(complexity / 10, 1.0)
complexity_score(complexity) == Min((complexity * One) \div 10, One)

\* _check_documentation
check_documentation(f) ==
    LET total_items == f.functions + f.classes
    IN IF total_items = 0 THEN One ELSE (f.documented * One) \div total_items

\* _check_code_style
check_code_style(f) ==
    LET long_penalty == IF 10 * f.long_lines > f.lines THEN Tenths(2) ELSE 0
        empty_penalty == IF 20 * f.empty_lines < f.lines THEN Tenths(1) ELSE 0
        comment_penalty == IF 10 * f.comment_lines < f.lines THEN Tenths(2) ELSE 0
    IN Max(One - long_penalty - empty_penalty - comment_penalty, 0)

\* the analysis dict of a file that could not be analysed
AnalysisError(f) ==
    [file |-> f.name, ext |-> f.ext, error |-> TRUE, complexity |-> 0, documentation |-> 0,
     style_score |-> 0, quality_score |-> 0, file_quality |-> 0]

\* analyze_python_file, with the file_quality _update_quality_metrics
\* computes from it
analyze_python_file(f) ==
    IF f.raises THEN AnalysisError(f)
    ELSE LET complexity == complexity_score(calculate_complexity(f))
             documentation == check_documentation(f)
             style_score == check_code_style(f)
         IN [file |-> f.name, ext |-> f.ext, error |-> FALSE, complexity |-> complexity,
             documentation |-> documentation, style_score |-> style_score,
             quality_score |-> 0,
             file_quality |-> (style_score * 4 + documentation * 3
                               + (One - complexity) * 3) \div 10]

\* analyze_javascript_file (also for .ts, .jsx, .tsx), with file_quality
analyze_javascript_file(f) ==
    IF f.raises THEN AnalysisError(f)
    ELSE LET quality_score == (IF f.has_functions THEN Tenths(3) ELSE 0)
                              + (IF f.has_comments THEN Tenths(3) ELSE 0)
                              + (IF f.has_error_handling THEN Tenths(2) ELSE 0)
                              + (IF f.lines < 200 THEN Tenths(2) ELSE 0)
         IN [file |-> f.name, ext |-> f.ext, error |-> FALSE, complexity |-> 0,
             documentation |-> 0, style_score |-> 0, quality_score |-> quality_score,
             file_quality |-> quality_score]

\* the analysis of one file of the workspace
AnalysisOf(f) == IF f.ext = "py" THEN analyze_python_file(f) ELSE analyze_javascript_file(f)

RECURSIVE TotalQuality(_)
\* total_quality over the analyses that are no error
TotalQuality(analyses) ==
    IF analyses = {} THEN 0
    ELSE LET a == CHOOSE x \in analyses : TRUE
         IN a.file_quality + TotalQuality(analyses \ {a})

\* the history limits of the monitor
QualityHistoryLimit == 100
QualityHistoryKept == 50
EstimatesLimit == 50
EstimatesKept == 25

\* the first n entries of a history
Recent_oldest(history, n) == SubSeq(history, 1, n)

\* history[-n:]
Recent(history, n) == SubSeq(history, Len(history) - n + 1, Len(history))

\* _update_quality_metrics: the monitor after the call
update_quality_metrics(e) ==
    IF ~e.exists THEN e
    ELSE LET analyses == {AnalysisOf(f) : f \in e.workspace}
             analysed == {a \in analyses : ~a.error}
             files_analyzed == Cardinality(analysed)
             average_quality == IF files_analyzed > 0
                                THEN TotalQuality(analysed) \div files_analyzed
                                ELSE 0
             history == Append(e.quality_history,
                               [timestamp |-> e.now, files_analyzed |-> files_analyzed,
                                average_quality |-> average_quality])
         IN [e EXCEPT !.analyses = analyses,
                      !.average_quality = average_quality,
                      !.quality_history = IF Len(history) > QualityHistoryLimit
                                          THEN Recent(history, QualityHistoryKept)
                                          ELSE history]

\* the file progress without the cap at 0.7
file_progress_uncapped(total_files_changed) == (total_files_changed * One) \div 10

\* file_progress = min(total_files_changed * 0.1, 0.7)
file_progress(total_files_changed) == Min((total_files_changed * One) \div 10, Tenths(7))

\* time_progress = min(elapsed_time / 3600, 0.3)
time_progress(elapsed_time) == Min((elapsed_time * One) \div 3600, Tenths(3))

\* quality_progress = quality_score * 0.2
quality_progress(quality_score) == (quality_score * 2) \div 10

\* _estimate_completion: the monitor after the call
estimate_completion(e) ==
    IF e.start_time = 0 THEN e
    ELSE LET elapsed_time == (e.now - e.start_time) * CheckInterval
             completion_estimate == file_progress(e.files_changed) + time_progress(elapsed_time)
                                    + quality_progress(e.average_quality)
             estimates == Append(e.completion_estimates,
                                 [timestamp |-> e.now,
                                  completion_rate |-> Min(completion_estimate, One),
                                  file_progress |-> file_progress(e.files_changed),
                                  time_progress |-> time_progress(elapsed_time),
                                  quality_progress |-> quality_progress(e.average_quality),
                                  total_files_changed |-> e.files_changed,
                                  elapsed_time |-> elapsed_time])
         IN [e EXCEPT !.completion_estimates = IF Len(estimates) > EstimatesLimit
                                               THEN Recent(estimates, EstimatesKept)
                                               ELSE estimates]

\* the trend without the dead-band
calculate_quality_trend_strict(quality_history) ==
    IF Len(quality_history) < 2 THEN "stable"
    ELSE LET recent_quality == quality_history[Len(quality_history)].average_quality
             previous_quality == quality_history[Len(quality_history) - 1].average_quality
         IN IF recent_quality > previous_quality THEN "improving"
            ELSE IF recent_quality < previous_quality THEN "declining"
            ELSE "stable"

\* _calculate_quality_trend
calculate_quality_trend(quality_history) ==
    IF Len(quality_history) < 2 THEN "stable"
    ELSE LET recent_quality == quality_history[Len(quality_history)].average_quality
             previous_quality == quality_history[Len(quality_history) - 1].average_quality
         IN IF recent_quality > previous_quality + Tenths(1) THEN "improving"
            ELSE IF recent_quality < previous_quality - Tenths(1) THEN "declining"
            ELSE "stable"

\* nothing is monitored yet
InitEstimator ==
    /\ ResolverIdle
    /\ SchedulerIdle
    /\ DecomposeIdle
    /\ AgentIdle

\* start_monitoring(workspace_path): the start time is taken, the observer is
\* scheduled if the workspace exists, and one more _monitoring_loop task is
\* created; exists says whether the path exists at the first call
StartMonitoring(exists, max_loops) ==
    /\ Len(estimator.loops) < max_loops
    /\ estimator.now - 1 <= MaxStartDelay
    /\ estimator.loops /= <<>> => exists = estimator.exists
    /\ estimator' = [estimator EXCEPT !.exists = exists,
                                      !.start_time = estimator.now,
                                      !.observing = @ \/ exists,
                                      !.loops = Append(@, "ready")]
    /\ UNCHANGED <<resolverVars, schedulerVars, decomposeVars, board, drive, wait, plan>>

\* _prepare_workspace of an execute_task creates the workspace directory
PrepareWorkspace ==
    /\ estimator.start_time /= 0
    /\ ~estimator.exists
    /\ estimator' = [estimator EXCEPT !.exists = TRUE]
    /\ UNCHANGED <<resolverVars, schedulerVars, decomposeVars, board, drive, wait, plan>>

\* the editor writes one more source file into the workspace
WriteFile(f) ==
    /\ estimator.exists
    /\ f \notin estimator.workspace
    /\ Cardinality(estimator.workspace) < MaxFiles
    /\ estimator' = [estimator EXCEPT !.workspace = @ \cup {f}]
    /\ UNCHANGED <<resolverVars, schedulerVars, decomposeVars, board, drive, wait, plan>>

\* _on_file_changed for a burst of created or modified events on paths not
\* yet listed
FilesChanged ==
    /\ estimator.observing
    /\ estimator.files_changed + FilesPerBurst <= MaxChanged
    /\ estimator' = [estimator EXCEPT !.files_changed = @ + FilesPerBurst]
    /\ UNCHANGED <<resolverVars, schedulerVars, decomposeVars, board, drive, wait, plan>>

\* one round of _monitoring_loop k up to its sleep: the three coroutines it
\* awaits never suspend, so the round is one step (_check_test_results and
\* _cleanup_old_data change none of the scores)
MonitoringRound(k) ==
    /\ k \in DOMAIN estimator.loops
    /\ estimator.loops[k] = "ready"
    /\ estimator' = [estimate_completion(update_quality_metrics(estimator))
                        EXCEPT !.loops[k] = "sleeping", !.trend = NotCalled]
    /\ UNCHANGED <<resolverVars, schedulerVars, decomposeVars, board, drive, wait, plan>>

\* the monitoring interval is over: the sleeping loops go on
SleepEnds(max_ticks) ==
    /\ estimator.loops /= <<>>
    /\ \A k \in DOMAIN estimator.loops : estimator.loops[k] = "sleeping"
    /\ estimator.now - 1 < max_ticks
    /\ estimator' = [estimator EXCEPT !.now = @ + 1,
                                      !.loops = [k \in DOMAIN @ |-> "ready"]]
    /\ UNCHANGED <<resolverVars, schedulerVars, decomposeVars, board, drive, wait, plan>>

\* get_progress() while monitoring: its quality_trend
GetProgress ==
    /\ estimator.start_time /= 0
    /\ estimator.trend = NotCalled
    /\ estimator' = [estimator EXCEPT
                        !.trend = Returned(calculate_quality_trend(estimator.quality_history))]
    /\ UNCHANGED <<resolverVars, schedulerVars, decomposeVars, board, drive, wait, plan>>

NextEstimator ==
    \/ \E exists \in BOOLEAN : StartMonitoring(exists, 1)
    \/ PrepareWorkspace
    \/ \E f \in FileContents : WriteFile(f)
    \/ FilesChanged
    \/ \E k \in 1..1 : MonitoringRound(k)
    \/ SleepEnds(MaxTicks)
    \/ GetProgress

SpecEstimator == InitEstimator /\ [][NextEstimator]_vars

\* the newest completion estimate
LatestEstimate == estimator.completion_estimates[Len(estimator.completion_estimates)]

\* C23: the completion rate of an estimate is min(0.1 x files changed, 0.7)
\* + min(elapsed hours, 0.3) + 0.2 x average_quality, and at most 1.0.
C23_CompletionRateFormula ==
    estimator.completion_estimates /= <<>> =>
        LET files == Min(LatestEstimate.total_files_changed * Tenths(1), Tenths(7))
            hours == Min((LatestEstimate.elapsed_time * One) \div 3600, Tenths(3))
            quality == (2 * estimator.average_quality) \div 10
        IN /\ LatestEstimate.completion_rate = Min(files + hours + quality, One)
           /\ LatestEstimate.file_progress = files
           /\ LatestEstimate.time_progress = hours
           /\ LatestEstimate.quality_progress = quality

\* C23's case: 3 changed files, no time elapsed and average_quality 0.5 give
\* 0.4
C23_Witness ==
    /\ estimator.completion_estimates /= <<>>
    /\ LatestEstimate.total_files_changed = 3
    /\ LatestEstimate.elapsed_time = 0
    /\ 2 * estimator.average_quality = One
    /\ LatestEstimate.completion_rate = Tenths(4)

Score(x) == 0 <= x /\ x <= One

\* C24: every score of the estimator is in [0, 1]: the complexity,
\* documentation, style and JavaScript scores of every analysed file and its
\* combined quality, average_quality, and the completion rate of every
\* estimate with its three components.
C24_ScoresInUnitInterval ==
    /\ \A a \in estimator.analyses :
           /\ Score(a.complexity)
           /\ Score(a.documentation)
           /\ Score(a.style_score)
           /\ Score(a.quality_score)
           /\ Score(a.file_quality)
    /\ Score(estimator.average_quality)
    /\ \A k \in DOMAIN estimator.quality_history :
           Score(estimator.quality_history[k].average_quality)
    /\ \A k \in DOMAIN estimator.completion_estimates :
           /\ Score(estimator.completion_estimates[k].completion_rate)
           /\ Score(estimator.completion_estimates[k].file_progress)
           /\ Score(estimator.completion_estimates[k].time_progress)
           /\ Score(estimator.completion_estimates[k].quality_progress)

\* C24's case: a file with a syntax error and a file of more than ten
\* branches were analysed, and the three components of the newest estimate
\* add up to more than 1.0
C24_Witness ==
    /\ \E a \in estimator.analyses : a.error
    /\ \E a \in estimator.analyses : a.file = "tangled.py" /\ a.complexity = One
    /\ estimator.completion_estimates /= <<>>
    /\ LatestEstimate.file_progress + LatestEstimate.time_progress
         + LatestEstimate.quality_progress > One
    /\ LatestEstimate.completion_rate = One

\* C25: the trend get_progress reports is improving if the newest
\* average_quality of quality_history is more than 0.1 above the one before
\* it, declining if it is more than 0.1 below, and stable otherwise and when
\* the history has fewer than two entries.
C25_TrendOfLastTwoWithDeadBand ==
    estimator.trend.kind = "return" =>
        LET h == estimator.quality_history
            n == Len(h)
        IN IF n < 2 THEN estimator.trend.value = "stable"
           ELSE /\ estimator.trend.value = "improving"
                     <=> h[n].average_quality - h[n - 1].average_quality > Tenths(1)
                /\ estimator.trend.value = "declining"
                     <=> h[n - 1].average_quality - h[n].average_quality > Tenths(1)
                /\ estimator.trend.value \in {"improving", "declining", "stable"}

\* C25's case: the newest average_quality differs from the one before it by
\* less than 0.1 and the trend reported is stable, after an earlier rise of
\* more than 0.1
C25_Witness ==
    LET h == estimator.quality_history
        n == Len(h)
    IN /\ estimator.trend = Returned("stable")
       /\ n >= 3
       /\ h[n].average_quality /= h[n - 1].average_quality
       /\ h[n - 1].average_quality - h[n - 2].average_quality > Tenths(1)

-----------------------------------------------------------------------------
(* the histories of the monitor under long monitoring *)

HistoryTicks == 52

\* start_monitoring calls of one run: process_requirement and the
\* execute_development it calls
MonitorStarts == 2

NextHistory ==
    \/ \E exists \in BOOLEAN : StartMonitoring(exists, MonitorStarts)
    \/ \E k \in 1..MonitorStarts : MonitoringRound(k)
    \/ SleepEnds(HistoryTicks)

SpecHistory == InitEstimator /\ [][NextHistory]_vars

\* a history after a step that wrote to it: the old entries in order and one
\* new entry while the limit is not passed, the newest kept entries of that
\* list when it is
KeptRecent(old, new, limit, kept) ==
    new /= old =>
        LET d == IF Len(old) < limit THEN 0 ELSE Len(old) + 1 - kept
        IN /\ Len(new) = Len(old) + 1 - d
           /\ \A i \in 1..(Len(new) - 1) : new[i] = old[i + d]
           /\ new[Len(new)].timestamp = estimator.now

\* C26: after every monitoring step quality_history holds at most 100 entries
\* and completion_estimates at most 50, with one loop or two; a step appends
\* one entry, and when the limit would be passed it keeps the newest 50 (25)
\* entries in order.
C26_HistoriesBoundedAndRecent ==
    /\ [](/\ Len(estimator.quality_history) <= QualityHistoryLimit
          /\ Len(estimator.completion_estimates) <= EstimatesLimit)
    /\ [][/\ KeptRecent(estimator.quality_history, estimator'.quality_history,
                        QualityHistoryLimit, QualityHistoryKept)
          /\ KeptRecent(estimator.completion_estimates, estimator'.completion_estimates,
                        EstimatesLimit, EstimatesKept)]_vars

\* C26's case: two loops run, quality_history was just cut to its newest 50
\* entries and completion_estimates was cut before
C26_Witness ==
    /\ Len(estimator.loops) = 2
    /\ Len(estimator.quality_history) = QualityHistoryKept
    /\ estimator.quality_history[1].timestamp > 1
    /\ estimator.completion_estimates /= <<>>
    /\ estimator.completion_estimates[1].timestamp > 1

=============================================================================
